---------------------------- MODULE Spec2Model ----------------------------
(***************************************************************************)
(* Model of the wharf build/channel/file lifecycle of butler-server        *)
(* (handlers/wharf.go over the models.Database persistence interface).     *)
(*                                                                         *)
(* Every table is a sequence of rows; a row's id is its position           *)
(* (INTEGER PRIMARY KEY AUTOINCREMENT).  0 stands for SQL NULL / Go nil.   *)
(* Each HTTP request runs on a worker; a worker's step is one call to the  *)
(* database or to the object store, so concurrent requests interleave      *)
(* between those calls exactly as the handlers (which take no lock and     *)
(* open no transaction) allow.                                             *)
(***************************************************************************)
EXTENDS Integers, Sequences, FiniteSets, TLC

\* ------------------------------------------------------------- bounds
MaxBuilds == 2
MaxFiles == 2
MaxFailures == 1
\* Builds at most where the pushes are served one after another.
MaxPushes == 3

\* Two request workers run concurrently.
Procs == {"w1", "w2"}
\* A run of the server binary with a user-management flag, a process of its own on the
\* server's database.
CliProc == "cli"

\* ------------------------------------------------------ fixed inputs
\* The users table when the server starts to handle requests (rows created with the
\* CLI): [username, role, is_active].
SeedUsers == << [username |-> "alice", role |-> "user",  is_active |-> TRUE],
                [username |-> "bob",   role |-> "user",  is_active |-> TRUE],
                [username |-> "root",  role |-> "admin", is_active |-> TRUE] >>
\* The username the OAuth endpoint creates a user for, and the usernames and roles the
\* CLI creates users with while the server runs.
TestUsername == "testuser"
NewUsernames == {"testuser"}
Roles == {"user", "admin"}
\* The usernames the CLI deactivates and activates users by.
Usernames == {"alice", "root", "testuser"}
Namespaces == {"alice", "testuser"}
Titles == {"demo"}
ChannelNames == {"main", "beta"}
Versions == {"1.0"}
FileTypes == {"patch"}
\* Object sizes a client uploads, and the size it declares at finalize.
Sizes == {1, 2}
DeclaredSizes == {1}
\* The credentials tried on the build-id-addressed endpoints: alice and bob.
FileActors == {1, 2}

VARIABLES
    users,       \* users table:       [username, role, is_active]
    games,       \* games table:       [user_id, title]
    uploads,     \* uploads table:     [game_id]
    builds,      \* builds table:      [upload_id, user_version, parent_build_id, state]
    buildFiles,  \* build_files table: [build_id, type, sub_type, size, state, storage_path]
    channels,    \* channels table:    [name, upload_id, current_build_id]
    blob,        \* the MinIO bucket: object name -> size
    localFs,     \* the server's local "storage/" directory: path -> size
    pc,          \* each worker's position in its handler
    req,         \* each worker's request in progress (NoReq when idle)
    loc,         \* each worker's local variables
    pushed,      \* history: for each build id, the (namespace, game, channel) of the push that created it
    procWrites,  \* history: for each build id, how many times UpdateBuild wrote state = processing
    advancedSeen,\* history: the build ids some read has reported as processing or completed
    failedPushes,\* history: the (namespace, game, channel) of each CreateBuild whose build insert failed
    last         \* the request answered by the latest step, with its response (NoLast if none)

vars == << users, games, uploads, builds, buildFiles, channels, blob, localFs,
           pc, req, loc, pushed, procWrites, advancedSeen, failedPushes, last >>

tables == << games, uploads, builds, buildFiles, channels >>

UserIds == 1..Len(users)

\* ------------------------------------------------------------ helpers
RECURSIVE SortAsc(_)
SortAsc(S) ==
    IF S = {} THEN << >>
    ELSE LET m == CHOOSE x \in S : \A y \in S : x <= y
         IN  << m >> \o SortAsc(S \ {m})

MaxOf(S) == CHOOSE x \in S : \A y \in S : y <= x

NoReq == [op |-> "none"]
NoLoc == [none |-> 0]
NoLast == [req |-> NoReq, resp |-> [status |-> 0]]
NoChannel == [id |-> 0, name |-> "", upload_id |-> 0, current_build_id |-> 0]

\* ------------------------------------------------------ models.User
IsAdmin(u) == users[u].role = "admin"

CanAccessNamespaceOpen(u, namespace) == TRUE

CanAccessNamespace(u, namespace) ==
    IF IsAdmin(u) THEN TRUE ELSE users[u].username = namespace

\* --------------------------------------------- models.SQLiteDatabase
\* The users whose API key GetUserByAPIKey finds (is_active = 1): the users the auth
\* middleware lets through to a handler.
ActiveUserIds == {u \in UserIds : users[u].is_active}

GetUserByUsername(username) ==
    LET S == {u \in UserIds : users[u].username = username}
    IN  IF S = {} THEN 0 ELSE CHOOSE u \in S : TRUE

GetGamesByUserID(userID) ==
    SortAsc({g \in 1..Len(games) : games[g].user_id = userID})

GetGameByUserAndTitle(userID, title) ==
    LET S == {g \in 1..Len(games) : games[g].user_id = userID /\ games[g].title = title}
    IN  IF S = {} THEN 0 ELSE CHOOSE g \in S : \A h \in S : g <= h

GetUploadsByGameID(gameID) ==
    SortAsc({u \in 1..Len(uploads) : uploads[u].game_id = gameID})

GetChannelByNameNone(name, uploadID) == 0

GetChannelByNameAnyName(name, uploadID) ==
    LET S == {c \in 1..Len(channels) : channels[c].upload_id = uploadID}
    IN  IF S = {} THEN 0 ELSE CHOOSE c \in S : \A d \in S : c <= d

GetChannelByNameAnyUpload(name, uploadID) ==
    LET S == {c \in 1..Len(channels) : channels[c].name = name}
    IN  IF S = {} THEN 0 ELSE CHOOSE c \in S : \A d \in S : c <= d

GetChannelByName(name, uploadID) ==
    LET S == {c \in 1..Len(channels) :
                 channels[c].name = name /\ channels[c].upload_id = uploadID}
    IN  IF S = {} THEN 0 ELSE CHOOSE c \in S : \A d \in S : c <= d

GetChannelsByUploadID(uploadID) ==
    SortAsc({c \in 1..Len(channels) : channels[c].upload_id = uploadID})

GetBuildFilesByBuildID(buildID) ==
    SortAsc({f \in 1..Len(buildFiles) : buildFiles[f].build_id = buildID})

\* A copy of a channel row, as GetChannelByName scans it into a struct.
ChannelCopy(c) ==
    IF c = 0 THEN NoChannel
    ELSE [id |-> c, name |-> channels[c].name, upload_id |-> channels[c].upload_id,
          current_build_id |-> channels[c].current_build_id]

\* --------------------------------------------------- worker plumbing
Idle(p) == pc[p] = "idle"

\* Workers in CreateBuild that have not yet inserted their build row.
CreateBuildPending ==
    {q \in Procs : pc[q] \in {"cb_start", "cb_games", "cb_creategame", "cb_uploads", "cb_scan",
                              "cb_createupload", "cb_channel", "cb_createbuild"}}

\* The handler returns: the response r to request rq is written.
Respond(p, rq, r) ==
    /\ pc' = [pc EXCEPT ![p] = "idle"]
    /\ req' = [req EXCEPT ![p] = NoReq]
    /\ loc' = [loc EXCEPT ![p] = NoLoc]
    /\ last' = [req |-> rq, resp |-> r]

Finish(p, r) == Respond(p, req[p], r)

\* The handler goes on to its next call with locals l.
Goto(p, label, l) ==
    /\ pc' = [pc EXCEPT ![p] = label]
    /\ loc' = [loc EXCEPT ![p] = l]
    /\ last' = NoLast
    /\ UNCHANGED req

history == << pushed, procWrites, advancedSeen, failedPushes >>

\* AuthMiddleware on the /wharf routes, for a request that carries the API key of an
\* active user: GetUserByAPIKey finds the user and the request rq is handed to its
\* handler, which starts at position start.
AuthMiddleware(p, rq, start) ==
    /\ pc' = [pc EXCEPT ![p] = start]
    /\ req' = [req EXCEPT ![p] = rq]
    /\ loc' = [loc EXCEPT ![p] = NoLoc]
    /\ last' = NoLast

\* ------------------------------------------------------------- users
\* The query strings of a request to the OAuth endpoint.
OAuthQueries ==
    {[client_id |-> c, redirect_uri |-> r] :
        c \in {"butler", "other"}, r \in {"", "http://127.0.0.1:1234/"}}
ButlerQueries == {q \in OAuthQueries : q.client_id = "butler" /\ q.redirect_uri # ""}

\* GET /oauth/authorize and GET /user/oauth, which need no credential, with a query of
\* QS: the checks of the query, then CreateTestUser's insert of the user "testuser"
\* (role user, active), which fails once the username is taken.
StartOAuthAuthorize(p, QS) ==
    /\ Idle(p)
    /\ \E q \in QS :
        LET rq == [op |-> "OAuthAuthorize", client_id |-> q.client_id,
                   redirect_uri |-> q.redirect_uri]
        IN  IF q.client_id # "butler"
              THEN /\ Respond(p, rq, [status |-> 400,
                                      error |-> "Invalid client_id: " \o q.client_id])
                   /\ UNCHANGED users
              ELSE IF q.redirect_uri = ""
              THEN /\ Respond(p, rq, [status |-> 400, error |-> "Missing redirect_uri"])
                   /\ UNCHANGED users
              ELSE IF GetUserByUsername(TestUsername) = 0
              THEN /\ users' = Append(users, [username |-> TestUsername, role |-> "user",
                                              is_active |-> TRUE])
                   /\ Respond(p, rq, [status |-> 200, user |-> Len(users) + 1])
              ELSE /\ pc' = [pc EXCEPT ![p] = "oa_getuser"]
                   /\ req' = [req EXCEPT ![p] = rq]
                   /\ loc' = [loc EXCEPT ![p] = NoLoc]
                   /\ last' = NoLast
                   /\ UNCHANGED users
    /\ UNCHANGED << tables, blob, localFs, history >>

\* The insert failed: GetUserByID(1); the page carries the API key of user 1, and the
\* handler redirects with a fixed key when there is no user 1.
OAGetUser(p) ==
    /\ pc[p] = "oa_getuser"
    /\ IF 1 \in UserIds
         THEN Finish(p, [status |-> 200, user |-> 1])
         ELSE Finish(p, [status |-> 302, access_token |-> "test-api-key-12345"])
    /\ UNCHANGED << tables, users, blob, localFs, history >>

OAuthAuthorize(p, QS) ==
    \/ StartOAuthAuthorize(p, QS)
    \/ OAGetUser(p)

\* The CLI process takes its next step, to position label with locals l; it answers no
\* request.
CliGoto(label, rq, l) ==
    /\ pc' = [pc EXCEPT ![CliProc] = label]
    /\ req' = [req EXCEPT ![CliProc] = rq]
    /\ loc' = [loc EXCEPT ![CliProc] = l]
    /\ last' = NoLast

\* The CLI (-create-user, -create-admin): auth.CreateUser looks the username up first;
\* a run that finds it exits and changes nothing.
CUGetUser(NS, RS) ==
    /\ Idle(CliProc)
    /\ \E name \in NS, role \in RS :
        /\ GetUserByUsername(name) = 0
        /\ CliGoto("cu_insert", [op |-> "CreateUser", username |-> name, role |-> role],
                   NoLoc)
    /\ UNCHANGED << tables, users, blob, localFs, history >>

\* db.CreateUser: the insert of an active user, which UNIQUE(username) makes fail when
\* the name was taken since the lookup.
CUInsert ==
    /\ pc[CliProc] = "cu_insert"
    /\ users' = IF GetUserByUsername(req[CliProc].username) = 0
                  THEN Append(users, [username |-> req[CliProc].username,
                                      role |-> req[CliProc].role, is_active |-> TRUE])
                  ELSE users
    /\ CliGoto("idle", NoReq, NoLoc)
    /\ UNCHANGED << tables, blob, localFs, history >>

CreateUser(NS, RS) ==
    \/ CUGetUser(NS, RS)
    \/ CUInsert

\* db.UpdateUser with the row read earlier and the given is_active: every column of the
\* row is written.
UpdateUser(active) ==
    /\ users' = [users EXCEPT ![loc[CliProc].user] =
                    [loc[CliProc].row EXCEPT !.is_active = active]]
    /\ CliGoto("idle", NoReq, NoLoc)
    /\ UNCHANGED << tables, blob, localFs, history >>

\* The CLI (-deactivate-user): GetUserByUsername; a run that finds no user, or finds
\* the user deactivated, exits and changes nothing.
DUGetUser(NS) ==
    /\ Idle(CliProc)
    /\ \E name \in NS :
        LET u == GetUserByUsername(name)
        IN  /\ u # 0
            /\ users[u].is_active
            /\ CliGoto("du_update", [op |-> "DeactivateUser", username |-> name],
                       [user |-> u, row |-> users[u]])
    /\ UNCHANGED << tables, users, blob, localFs, history >>

DUUpdate ==
    /\ pc[CliProc] = "du_update"
    /\ UpdateUser(FALSE)

DeactivateUser(NS) ==
    \/ DUGetUser(NS)
    \/ DUUpdate

\* The CLI (-activate-user): GetUserByUsername; a run that finds no user, or finds the
\* user active, exits and changes nothing.
AUGetUser(NS) ==
    /\ Idle(CliProc)
    /\ \E name \in NS :
        LET u == GetUserByUsername(name)
        IN  /\ u # 0
            /\ ~users[u].is_active
            /\ CliGoto("au_update", [op |-> "ActivateUser", username |-> name],
                       [user |-> u, row |-> users[u]])
    /\ UNCHANGED << tables, users, blob, localFs, history >>

AUUpdate ==
    /\ pc[CliProc] = "au_update"
    /\ UpdateUser(TRUE)

ActivateUser(NS) ==
    \/ AUGetUser(NS)
    \/ AUUpdate

\* AuthMiddleware on the /wharf routes: a request that carries no API key (user 0), or
\* the API key of a deactivated user, is answered 401 and no handler runs.
Unauthorized ==
    /\ \/ last' = [req |-> [op |-> "AuthMiddleware", user |-> 0],
                   resp |-> [status |-> 401, error |-> "missing api_key"]]
       \/ \E u \in UserIds \ ActiveUserIds :
            last' = [req |-> [op |-> "AuthMiddleware", user |-> u],
                     resp |-> [status |-> 401, error |-> "invalid api_key"]]
    /\ UNCHANGED << tables, users, blob, localFs, pc, req, loc, history >>

\* ------------------------------------------------------- CreateBuild
\* The game's first owner-and-title match in the listing, or 0.
FindGameByTitleNone(gameIds, title) == 0

FindGameByTitle(gameIds, title) ==
    LET S == {i \in 1..Len(gameIds) : games[gameIds[i]].title = title}
    IN  IF S = {} THEN 0 ELSE gameIds[CHOOSE i \in S : \A j \in S : i <= j]

\* The owner id CreateBuild stores on a game it creates.
NewGameOwnerActing(p) == req[p].user

NewGameOwner(p) == loc[p].owner

\* Locals of a CreateBuild request.
CBLocals(owner) ==
    [owner |-> owner, game |-> 0, uploads |-> << >>, i |-> 0, upload |-> 0,
     existing |-> NoChannel, parent |-> 0, build |-> 0]

\* The target of a request as strings.Split(req.Target, "/") sees it: its sequence of
\* segments, the empty sequence standing for a missing target.
Targets ==
    {<< ns, g >> : ns \in Namespaces, g \in Titles}
      \cup {<< >>, << "alice" >>, << "alice", "demo", "extra" >>}

TargetErrorNone(target) == ""

\* The target checks of CreateBuild: the error answered with 400, "" if there is none.
TargetError(target) ==
    IF target = << >> THEN "missing target"
    ELSE IF Len(target) # 2 THEN "invalid target format"
    ELSE ""

\* The segments a target is taken apart into: username, gameName := parts[0], parts[1].
TargetParts(target) ==
    [ns |-> IF Len(target) >= 1 THEN target[1] ELSE "",
     game |-> IF Len(target) >= 2 THEN target[2] ELSE ""]

\* POST /wharf/builds with a channel of CS and a user version of VS passes
\* AuthMiddleware.
AuthCreateBuildOn(p, CS, VS, N) ==
    /\ Idle(p)
    /\ Len(builds) + Cardinality(CreateBuildPending) < N
    /\ \E u \in ActiveUserIds, t \in Targets, c \in CS, v \in VS :
        AuthMiddleware(p, [op |-> "CreateBuild", user |-> u, target |-> t,
                           channel |-> c, version |-> v], "cb_start")
    /\ UNCHANGED << tables, users, blob, localFs, history >>

\* CreateBuild: parse, check the target, validate namespace access, resolve the
\* namespace owner (GetUserByUsername).
StartCreateBuild(p) ==
    /\ pc[p] = "cb_start"
    /\ LET u == req[p].user
           t == req[p].target
           ns == TargetParts(t).ns
           r == [op |-> "CreateBuild", user |-> u, target |-> t, ns |-> ns,
                 game |-> TargetParts(t).game, channel |-> req[p].channel,
                 version |-> req[p].version]
           owner == GetUserByUsername(ns)
       IN  IF TargetError(t) # ""
             THEN Finish(p, [status |-> 400, error |-> TargetError(t)])
             ELSE IF ~CanAccessNamespace(u, ns)
             THEN Respond(p, r, [status |-> 403])
             ELSE IF owner = 0
             THEN Respond(p, r, [status |-> 404])
             ELSE /\ pc' = [pc EXCEPT ![p] = "cb_games"]
                  /\ req' = [req EXCEPT ![p] = r]
                  /\ loc' = [loc EXCEPT ![p] = CBLocals(owner)]
                  /\ last' = NoLast
    /\ UNCHANGED << tables, users, blob, localFs, history >>

\* GetGamesByUserID(namespaceOwner.ID) and the search by title.
CBFindGame(p) ==
    /\ pc[p] = "cb_games"
    /\ LET g == FindGameByTitle(GetGamesByUserID(loc[p].owner), req[p].game)
       IN  Goto(p, IF g = 0 THEN "cb_creategame" ELSE "cb_uploads",
                [loc[p] EXCEPT !.game = g])
    /\ UNCHANGED << tables, users, blob, localFs, history >>

\* CreateGame owned by the namespace owner.
CBCreateGame(p) ==
    /\ pc[p] = "cb_creategame"
    /\ games' = Append(games, [user_id |-> NewGameOwner(p), title |-> req[p].game])
    /\ Goto(p, "cb_uploads", [loc[p] EXCEPT !.game = Len(games) + 1])
    /\ UNCHANGED << uploads, builds, buildFiles, channels, users, blob, localFs, history >>

\* GetUploadsByGameID(game.ID).
CBListUploads(p) ==
    /\ pc[p] = "cb_uploads"
    /\ LET us == GetUploadsByGameID(loc[p].game)
       IN  IF Len(us) = 0
             THEN Goto(p, "cb_createupload", loc[p])
             ELSE Goto(p, "cb_scan", [loc[p] EXCEPT !.uploads = us, !.i = 1])
    /\ UNCHANGED << tables, users, blob, localFs, history >>

\* The scan has looked at the last of the uploads us when it is at index i.
ScanDoneAtFirst(i, us) == TRUE

ScanDone(i, us) == i = Len(us)

\* One iteration of the scan: GetChannelByName(req.Channel, existingUpload.ID).
CBScanUpload(p) ==
    /\ pc[p] = "cb_scan"
    /\ LET u == loc[p].uploads[loc[p].i]
       IN  IF GetChannelByName(req[p].channel, u) # 0
             THEN Goto(p, "cb_channel",
                       [loc[p] EXCEPT !.upload = u, !.uploads = << >>, !.i = 0])
             ELSE IF ScanDone(loc[p].i, loc[p].uploads)
             THEN Goto(p, "cb_createupload", [loc[p] EXCEPT !.uploads = << >>, !.i = 0])
             ELSE Goto(p, "cb_scan", [loc[p] EXCEPT !.i = @ + 1])
    /\ UNCHANGED << tables, users, blob, localFs, history >>

\* CreateUpload for the game.
CBCreateUpload(p) ==
    /\ pc[p] = "cb_createupload"
    /\ uploads' = Append(uploads, [game_id |-> loc[p].game])
    /\ Goto(p, "cb_channel", [loc[p] EXCEPT !.upload = Len(uploads) + 1])
    /\ UNCHANGED << games, builds, buildFiles, channels, users, blob, localFs, history >>

\* The parent of a new build: the current build of the channel found (0 if none).
ParentBuildIDNone(ch) == 0

ParentBuildID(ch) == ch.current_build_id

\* GetChannelByName(req.Channel, upload.ID): the parent is the channel's current build.
CBFindChannel(p) ==
    /\ pc[p] = "cb_channel"
    /\ LET ch == ChannelCopy(GetChannelByName(req[p].channel, loc[p].upload))
       IN  Goto(p, "cb_createbuild",
                [loc[p] EXCEPT !.existing = ch, !.parent = ParentBuildID(ch)])
    /\ UNCHANGED << tables, users, blob, localFs, history >>

\* The current build UpdateChannel writes on the existing channel ex: the new build.
NewCurrentBuildStale(ex, build) == ex.current_build_id

NewCurrentBuild(ex, build) == build

\* db.CreateBuild: insert the build row in state started.
CBInsertBuild(p) ==
    /\ pc[p] = "cb_createbuild"
    /\ builds' = Append(builds, [upload_id |-> loc[p].upload,
                                 user_version |-> req[p].version,
                                 parent_build_id |-> loc[p].parent,
                                 state |-> "started"])
    /\ pushed' = Append(pushed, [ns |-> req[p].ns, game |-> req[p].game,
                                 channel |-> req[p].channel])
    /\ procWrites' = Append(procWrites, 0)
    /\ Goto(p, "cb_upsert", [loc[p] EXCEPT !.build = Len(builds) + 1])
    /\ UNCHANGED << games, uploads, buildFiles, channels, users, blob, localFs, advancedSeen,
                    failedPushes >>

\* db.CreateBuild returns an error: the handler answers 500 and returns; the Game and
\* Upload rows it created stay.
CBInsertBuildFails(p) ==
    /\ pc[p] = "cb_createbuild"
    /\ Len(failedPushes) < MaxFailures
    /\ failedPushes' = Append(failedPushes, [ns |-> req[p].ns, game |-> req[p].game,
                                             channel |-> req[p].channel])
    /\ Finish(p, [status |-> 500])
    /\ UNCHANGED << tables, users, blob, localFs, pushed, procWrites, advancedSeen >>

\* The body of the build creation response.
BuildResponse(id, uploadId, userVersion, state, parent) ==
    IF parent # 0
      THEN [id |-> id, uploadId |-> uploadId, userVersion |-> userVersion,
            state |-> state, parentBuild |-> [id |-> parent]]
      ELSE [id |-> id, uploadId |-> uploadId, userVersion |-> userVersion,
            state |-> state]

\* UpdateChannel (whole row, from the copy read earlier) or CreateChannel, then respond.
CBUpsertChannel(p) ==
    /\ pc[p] = "cb_upsert"
    /\ LET ex == loc[p].existing
           ok == [status |-> 200,
                  body |-> BuildResponse(loc[p].build, loc[p].upload, req[p].version,
                                         "started", loc[p].parent)]
       IN  IF ex.id # 0
             THEN /\ channels' = [channels EXCEPT ![ex.id] =
                                    [name |-> ex.name, upload_id |-> ex.upload_id,
                                     current_build_id |-> NewCurrentBuild(ex, loc[p].build)]]
                  /\ Finish(p, ok)
             ELSE IF GetChannelByName(req[p].channel, loc[p].upload) # 0
             THEN \* UNIQUE(name, upload_id) rejects the insert
                  /\ UNCHANGED channels
                  /\ Finish(p, [status |-> 500])
             ELSE /\ channels' = Append(channels, [name |-> req[p].channel,
                                                   upload_id |-> loc[p].upload,
                                                   current_build_id |-> loc[p].build])
                  /\ Finish(p, ok)
    /\ UNCHANGED << games, uploads, builds, buildFiles, users, blob, localFs, history >>

\* The handler's steps once the request has passed AuthMiddleware.
CreateBuildSteps(p) ==
    \/ StartCreateBuild(p)
    \/ CBFindGame(p)
    \/ CBCreateGame(p)
    \/ CBListUploads(p)
    \/ CBScanUpload(p)
    \/ CBCreateUpload(p)
    \/ CBFindChannel(p)
    \/ CBInsertBuild(p)
    \/ CBUpsertChannel(p)

CreateBuild(p) ==
    \/ AuthCreateBuildOn(p, ChannelNames, Versions, MaxBuilds)
    \/ CreateBuildSteps(p)

\* The channel field of a request body: a name, or "" when the field is missing.
RequestChannels == ChannelNames \cup {""}

\* CreateBuild where the request's channel field may be missing.
CreateBuildAnyChannel(p) ==
    \/ AuthCreateBuildOn(p, RequestChannels, Versions, MaxBuilds)
    \/ CreateBuildSteps(p)

\* The user_version field of a request body: a version, or "" when the field is missing.
RequestVersions == Versions \cup {""}

\* CreateBuild where the request's user_version field may be missing.
CreateBuildAnyVersion(p) ==
    \/ AuthCreateBuildOn(p, ChannelNames, RequestVersions, MaxBuilds)
    \/ CreateBuildSteps(p)

\* ------------------------------------------------- object names
UploadPathNoUuid(buildID, type, subType, uuid) ==
    [kind |-> "upload", build |-> buildID, type |-> type, sub_type |-> subType, id |-> 0]

\* "builds/<buildID>/<type>_<subType>_<uuid>": the object a client file is uploaded to.
UploadPath(buildID, type, subType, uuid) ==
    [kind |-> "upload", build |-> buildID, type |-> type, sub_type |-> subType, id |-> uuid]

\* "builds/<buildID>/files" (id = 0) and "builds/<buildID>/files/<fileID>".
FilesPath(buildID, fileID) ==
    [kind |-> "files", build |-> buildID, type |-> "", sub_type |-> "", id |-> fileID]

\* "storage/builds/<buildID>/files/<fileID>" on the server's local disk.
StoragePath(buildID, fileID) ==
    [kind |-> "storage", build |-> buildID, type |-> "", sub_type |-> "", id |-> fileID]

\* "test/hello.txt", the object the MinIO test endpoint writes.
TestObject ==
    [kind |-> "test", build |-> 0, type |-> "", sub_type |-> "", id |-> 0]

\* WharfHandlers.FileExists / GetFileSize: StatObject on the bucket.
FileExistsAlways(objectName) == TRUE

FileExists(objectName) == objectName \in DOMAIN blob

\* GetFileSize returns (stat.Size, nil), or (0, err) when StatObject fails.
GetFileSize(objectName) ==
    IF objectName \in DOMAIN blob THEN [size |-> blob[objectName], err |-> FALSE]
                                  ELSE [size |-> 0, err |-> TRUE]

\* The build files a client registered (not the ones Archive Assembly created).
ClientFiles == {f \in 1..Len(buildFiles) : buildFiles[f].storage_path.kind = "upload"}

\* Workers in CreateBuildFile that have not yet inserted their row.
RegisterPending == {q \in Procs : pc[q] \in {"rf_start", "rf_insert"}}

\* ------------------------------------------------- CreateBuildFile
\* POST /wharf/builds/{id}/files passes AuthMiddleware.
AuthCreateBuildFile(p) ==
    /\ Idle(p)
    /\ Cardinality(ClientFiles) + Cardinality(RegisterPending) < MaxFiles
    /\ \E u \in FileActors \cap ActiveUserIds, b \in 1..(Len(builds) + 1), t \in FileTypes :
        AuthMiddleware(p, [op |-> "CreateBuildFile", user |-> u, build |-> b, type |-> t],
                       "rf_start")
    /\ UNCHANGED << tables, users, blob, localFs, history >>

\* CreateBuildFile: GetBuildByID, then parse the body.
StartCreateBuildFile(p) ==
    /\ pc[p] = "rf_start"
    /\ IF req[p].build > Len(builds)
         THEN Finish(p, [status |-> 404])
         ELSE Goto(p, "rf_insert", NoLoc)
    /\ UNCHANGED << tables, users, blob, localFs, history >>

\* uuid.New(), the presigned upload URL, and db.CreateBuildFile in state uploading.
RFInsert(p) ==
    /\ pc[p] = "rf_insert"
    /\ LET id == Len(buildFiles) + 1
           row == [build_id |-> req[p].build, type |-> req[p].type, sub_type |-> "default",
                   size |-> 0, state |-> "uploading",
                   storage_path |-> UploadPath(req[p].build, req[p].type, "default", id)]
       IN  /\ buildFiles' = Append(buildFiles, row)
           /\ Finish(p, [status |-> 200,
                         body |-> [id |-> id, type |-> row.type, sub_type |-> row.sub_type,
                                   state |-> row.state, upload_url |-> row.storage_path]])
    /\ UNCHANGED << games, uploads, builds, channels, users, blob, localFs, history >>

CreateBuildFile(p) ==
    \/ AuthCreateBuildFile(p)
    \/ StartCreateBuildFile(p)
    \/ RFInsert(p)

\* The client PUTs an object of a size in SZ to a presigned upload URL it was given.
\* The URL stays valid (for an hour) whatever happens to the row: a PUT replaces the
\* object a former PUT stored, also after the file was finalized.
ClientUpload(SZ) ==
    /\ \E f \in ClientFiles, n \in SZ :
        blob' = (buildFiles[f].storage_path :> n) @@ blob
    /\ last' = NoLast
    /\ UNCHANGED << tables, users, localFs, pc, req, loc, history >>

\* GET /test/minio (no credential needed): PutObject of the test content.
TestMinio ==
    /\ blob' = (TestObject :> Len("Hello from MinIO! This is a test file.")) @@ blob
    /\ last' = [req |-> [op |-> "TestMinio"], resp |-> [status |-> 200]]
    /\ UNCHANGED << tables, users, localFs, pc, req, loc, history >>

\* ------------------------------------------------ FinalizeBuildFile
\* A copy of a build_files row, as GetBuildFileByID scans it into a struct.
BuildFileCopy(f) == [id |-> f] @@ buildFiles[f]

\* A copy of a builds row, as GetBuildByID scans it into a struct.
BuildCopyPartial(b) ==
    [id |-> b, upload_id |-> builds[b].upload_id, user_version |-> "",
     parent_build_id |-> 0, state |-> builds[b].state]

BuildCopy(b) == [id |-> b] @@ builds[b]

UpdateBuildFileSizeOnly(bf) ==
    buildFiles' = [buildFiles EXCEPT ![bf.id].size = bf.size]

\* UpdateBuildFile: every column of the row is written from the struct.
UpdateBuildFile(bf) ==
    buildFiles' = [buildFiles EXCEPT ![bf.id] =
                     [build_id |-> bf.build_id, type |-> bf.type, sub_type |-> bf.sub_type,
                      size |-> bf.size, state |-> bf.state, storage_path |-> bf.storage_path]]

UpdateBuildLost(b) == builds' = builds

\* UpdateBuild: every column of the row is written from the struct.
UpdateBuild(b) ==
    builds' = [builds EXCEPT ![b.id] =
                 [upload_id |-> b.upload_id, user_version |-> b.user_version,
                  parent_build_id |-> b.parent_build_id, state |-> b.state]]

FZLocals(bf) ==
    [file |-> bf, build |-> [id |-> 0], listed |-> << >>, files |-> << >>,
     archive |-> [id |-> 0]]

\* The success response of FinalizeBuildFile.
FinalizeOK(p) ==
    [status |-> 200,
     body |-> [id |-> loc[p].file.id, size |-> loc[p].file.size, state |-> loc[p].file.state]]

\* The check that the file found belongs to the build named in the path.
BelongsToBuildAny(f, buildID) == TRUE

BelongsToBuild(f, buildID) == buildFiles[f].build_id = buildID

\* POST /wharf/builds/{buildId}/files/{fileId} passes AuthMiddleware with the key of
\* some active user; the handler never reads the user, so the request is kept without.
AuthFinalizeBuildFile(p) ==
    /\ Idle(p)
    /\ ActiveUserIds # {}
    /\ \E b \in 1..Len(builds), f \in 1..(Len(buildFiles) + 1), n \in DeclaredSizes :
        AuthMiddleware(p, [op |-> "FinalizeBuildFile", build |-> b, file |-> f, size |-> n],
                       "fz_start")
    /\ UNCHANGED << tables, users, blob, localFs, history >>

\* FinalizeBuildFile: GetBuildFileByID and the ownership check.
StartFinalizeBuildFile(p) ==
    /\ pc[p] = "fz_start"
    /\ LET f == req[p].file
       IN  IF f > Len(buildFiles)
             THEN Finish(p, [status |-> 404])
             ELSE IF ~BelongsToBuild(f, req[p].build)
             THEN Finish(p, [status |-> 400, error |-> "build file does not belong to build"])
             ELSE Goto(p, "fz_stat", FZLocals(BuildFileCopy(f)))
    /\ UNCHANGED << tables, users, blob, localFs, history >>

\* The size FinalizeBuildFile stores: the one the bucket reported, not req.Size.
VerifiedSizeDeclared(p, actualSize) == req[p].size

VerifiedSize(p, actualSize) == actualSize

\* FileExists on the file's storage path (the first StatObject).
FZStat(p) ==
    /\ pc[p] = "fz_stat"
    /\ IF ~FileExists(loc[p].file.storage_path)
         THEN Finish(p, [status |-> 400,
                         error |-> "file not found in storage - upload may have failed"])
         ELSE Goto(p, "fz_size", loc[p])
    /\ UNCHANGED << tables, users, blob, localFs, history >>

\* GetFileSize on the file's storage path (the second StatObject): the size it reports
\* is the one the handler goes on with.
FZGetSize(p) ==
    /\ pc[p] = "fz_size"
    /\ LET bf == loc[p].file
           actual == GetFileSize(bf.storage_path)
       IN  IF actual.err
             THEN Finish(p, [status |-> 500, error |-> "could not verify file size in storage"])
             ELSE Goto(p, "fz_update",
                       [loc[p] EXCEPT !.file = [bf EXCEPT !.size = VerifiedSize(p, actual.size),
                                                          !.state = "uploaded"]])
    /\ UNCHANGED << tables, users, blob, localFs, history >>

\* db.UpdateBuildFile with the verified size and state uploaded.
FZUpdate(p) ==
    /\ pc[p] = "fz_update"
    /\ UpdateBuildFile(loc[p].file)
    /\ Goto(p, "ck_getbuild", loc[p])
    /\ UNCHANGED << games, uploads, builds, channels, users, blob, localFs, history >>

\* The guard of checkAndUpdateBuildState: a build that is not started is left alone.
AlreadyAdvancedNever(state) == FALSE

AlreadyAdvanced(state) == state # "started"

\* checkAndUpdateBuildState: GetBuildByID; only a started build is processed.
CKGetBuild(p) ==
    /\ pc[p] = "ck_getbuild"
    /\ IF AlreadyAdvanced(builds[req[p].build].state)
         THEN Finish(p, FinalizeOK(p))
         ELSE Goto(p, "ck_files", [loc[p] EXCEPT !.build = BuildCopy(req[p].build)])
    /\ UNCHANGED << tables, users, blob, localFs, history >>

AllUploadedNever(fs) == FALSE

\* The allUploaded loop of checkAndUpdateBuildState over the listed files.
AllUploadedSome(fs) == \E i \in 1..Len(fs) : buildFiles[fs[i]].state = "uploaded"

AllUploaded(fs) == \A i \in 1..Len(fs) : buildFiles[fs[i]].state = "uploaded"

\* checkAndUpdateBuildState: GetBuildFilesByBuildID and the all-uploaded test.
CKListFiles(p) ==
    /\ pc[p] = "ck_files"
    /\ LET fs == GetBuildFilesByBuildID(req[p].build)
       IN  IF Len(fs) = 0 \/ ~AllUploaded(fs)
             THEN Finish(p, FinalizeOK(p))
             ELSE Goto(p, "ck_processing", [loc[p] EXCEPT !.listed = fs])
    /\ UNCHANGED << tables, users, blob, localFs, history >>

\* The state written by the first UpdateBuild of the evaluation.
ProcessingStateStale(p) == loc[p].build.state

ProcessingState(p) == "processing"

\* checkAndUpdateBuildState: build.State = "processing"; UpdateBuild.
CKSetProcessing(p) ==
    /\ pc[p] = "ck_processing"
    /\ LET b == [loc[p].build EXCEPT !.state = ProcessingState(p)]
       IN  /\ UpdateBuild(b)
           /\ Goto(p, "ar_list", [loc[p] EXCEPT !.build = b, !.listed = << >>])
    /\ procWrites' = [procWrites EXCEPT ![req[p].build] = @ + 1]
    /\ UNCHANGED << games, uploads, buildFiles, channels, users, blob, localFs, pushed, advancedSeen,
                    failedPushes >>

\* The name of a build file's entry in the ZIP.
ZipEntryName(type, subType) ==
    IF type = "archive" THEN type \o "_" \o subType \o ".zip" ELSE type \o "_" \o subType

\* The length of the DEFLATE stream zipWriter.Create's writer (compress/flate, level 5)
\* produces for n bytes of data shorter than the shortest match (4 bytes), as all data
\* here is: one block of fixed Huffman codes (3 bits, 8 or 9 bits a literal, 7 bits for
\* the end of the block), then the empty stored block that ends the stream (3 bits,
\* padding to the byte, 4 bytes of lengths); for no data, the stored block alone.  The
\* length for longer data depends on the content.
DeflateLength(n) == IF n = 0 THEN 5 ELSE n + 6

\* The length of the ZIP file written for a sequence of entries [name, size]: a 22-byte
\* end record and, for every entry, a local header (30 bytes and the name), the
\* deflated data, a 16-byte data descriptor and a central directory header (46 bytes
\* and the name).
RECURSIVE ZipSize(_)
ZipSize(entries) ==
    IF entries = << >> THEN 22
    ELSE 30 + Len(Head(entries).name) + DeflateLength(Head(entries).size) + 16
           + 46 + Len(Head(entries).name) + ZipSize(Tail(entries))

\* createArchiveFromBuildFiles: GetBuildFilesByBuildID; the loop skips the files that
\* are not uploaded in the listing.  (The listing of a build under evaluation is never
\* empty, so the README placeholder is never written.)
ARListFiles(p) ==
    /\ pc[p] = "ar_list"
    /\ LET fs == GetBuildFilesByBuildID(req[p].build)
           up == SortAsc({fs[i] : i \in {j \in 1..Len(fs) : buildFiles[fs[j]].state = "uploaded"}})
           fl == [i \in 1..Len(up) |->
                    [id |-> up[i], storage_path |-> buildFiles[up[i]].storage_path,
                     name |-> ZipEntryName(buildFiles[up[i]].type, buildFiles[up[i]].sub_type)]]
       IN  IF Len(fl) = 0
             THEN Goto(p, "ar_create",
                       [loc[p] EXCEPT !.archive = [id |-> 0, size |-> ZipSize(<< >>)]])
             ELSE Goto(p, "ar_zip",
                       [loc[p] EXCEPT !.files = fl, !.archive = [id |-> 0, entries |-> << >>]])
    /\ UNCHANGED << tables, users, blob, localFs, history >>

\* The loop of createArchiveFromBuildFiles has dealt with the first of the files left,
\* and the ZIP holds the entries given: on to the next file, or, after the last one,
\* zipWriter.Close and os.Stat of the temporary file.
ARZipNext(p, entries) ==
    IF Len(loc[p].files) > 1
      THEN Goto(p, "ar_zip", [loc[p] EXCEPT !.files = Tail(@), !.archive.entries = entries])
      ELSE Goto(p, "ar_create",
                [loc[p] EXCEPT !.files = << >>,
                               !.archive = [id |-> 0, size |-> ZipSize(entries)]])

\* One iteration of the loop: GetObject, zipWriter.Create and io.Copy of the object into
\* the ZIP.  Reading an object that is not in the bucket fails the copy, and with it the
\* whole archive.
ARZip(p) ==
    /\ pc[p] = "ar_zip"
    /\ LET f == Head(loc[p].files)
       IN  IF ~FileExists(f.storage_path)
             THEN Goto(p, "ck_completed",
                       [loc[p] EXCEPT !.files = << >>, !.archive = [id |-> 0, failed |-> TRUE]])
             ELSE ARZipNext(p, Append(loc[p].archive.entries,
                                      [name |-> f.name, size |-> blob[f.storage_path]]))
    /\ UNCHANGED << tables, users, blob, localFs, history >>

\* One iteration of the loop where reading the object fails.  When GetObject returns
\* the error, the loop logs it and continues with the next file; when io.Copy returns
\* it, the function returns the error and no archive is produced.
ARZipReadFails(p) ==
    /\ pc[p] = "ar_zip"
    /\ \/ ARZipNext(p, loc[p].archive.entries)
       \/ Goto(p, "ck_completed",
               [loc[p] EXCEPT !.files = << >>, !.archive = [id |-> 0, failed |-> TRUE]])
    /\ UNCHANGED << tables, users, blob, localFs, history >>

\* generateArchiveFile: db.CreateBuildFile for the archive, state uploaded.
ARCreateFile(p) ==
    /\ pc[p] = "ar_create"
    /\ LET id == Len(buildFiles) + 1
       IN  /\ buildFiles' = Append(buildFiles,
                  [build_id |-> loc[p].build.id, type |-> "archive", sub_type |-> "default",
                   size |-> loc[p].archive.size, state |-> "uploaded",
                   storage_path |-> FilesPath(loc[p].build.id, 0)])
           /\ Goto(p, "ar_path", [loc[p] EXCEPT !.archive.id = id])
    /\ UNCHANGED << games, uploads, builds, channels, users, blob, localFs, history >>

\* generateArchiveFile: db.UpdateBuildFile with the storage path that holds the file id.
ARSetPath(p) ==
    /\ pc[p] = "ar_path"
    /\ UpdateBuildFile([id |-> loc[p].archive.id, build_id |-> loc[p].build.id,
                        type |-> "archive", sub_type |-> "default",
                        size |-> loc[p].archive.size, state |-> "uploaded",
                        storage_path |-> FilesPath(loc[p].build.id, loc[p].archive.id)])
    /\ Goto(p, "ar_move", loc[p])
    /\ UNCHANGED << games, uploads, builds, channels, users, blob, localFs, history >>

\* generateArchiveFile: os.MkdirAll and os.Rename of the temporary file to local storage.
ARMove(p) ==
    /\ pc[p] = "ar_move"
    /\ localFs' = (StoragePath(loc[p].build.id, loc[p].archive.id) :> loc[p].archive.size)
                    @@ localFs
    /\ Goto(p, "ck_completed", [loc[p] EXCEPT !.archive = [id |-> 0]])
    /\ UNCHANGED << tables, users, blob, history >>

\* The positions inside generateArchiveFile / createArchiveFromBuildFiles.
ArchiveSteps == {"ar_list", "ar_zip", "ar_create", "ar_path", "ar_move"}

\* generateArchiveFile returns an error: the call the worker is about to make (listing
\* the files, writing the ZIP, CreateBuildFile, UpdateBuildFile, MkdirAll/Rename) fails
\* without effect.  checkAndUpdateBuildState logs the error and goes on.
ArchiveFailure(p) ==
    /\ pc[p] \in ArchiveSteps
    /\ Goto(p, "ck_completed",
            [loc[p] EXCEPT !.files = << >>, !.archive = [id |-> 0, failed |-> TRUE]])
    /\ UNCHANGED << tables, users, blob, localFs, history >>

\* The state written once generateArchiveFile has returned, with or without an error.
StateAfterArchiveFailed(p) ==
    IF "failed" \in DOMAIN loc[p].archive THEN "processing" ELSE "completed"

StateAfterArchive(p) == "completed"

\* checkAndUpdateBuildState: build.State = "completed"; UpdateBuild; respond.
CKSetCompleted(p) ==
    /\ pc[p] = "ck_completed"
    /\ UpdateBuild([loc[p].build EXCEPT !.state = StateAfterArchive(p)])
    /\ Finish(p, FinalizeOK(p))
    /\ UNCHANGED << games, uploads, buildFiles, channels, users, blob, localFs, history >>

\* The UpdateBuild that writes completed returns an error: checkAndUpdateBuildState
\* returns it, FinalizeBuildFile logs a warning and answers 200; the row keeps the
\* state written before.
CKSetCompletedFails(p) ==
    /\ pc[p] = "ck_completed"
    /\ Finish(p, FinalizeOK(p))
    /\ UNCHANGED << tables, users, blob, localFs, history >>

FinalizeBuildFile(p) ==
    \/ AuthFinalizeBuildFile(p)
    \/ StartFinalizeBuildFile(p)
    \/ FZStat(p)
    \/ FZGetSize(p)
    \/ FZUpdate(p)
    \/ CKGetBuild(p)
    \/ CKListFiles(p)
    \/ CKSetProcessing(p)
    \/ ARListFiles(p)
    \/ ARZip(p)
    \/ ARCreateFile(p)
    \/ ARSetPath(p)
    \/ ARMove(p)
    \/ CKSetCompleted(p)

\* The object store does not answer the stat (unreachable, timed out).  In FileExists
\* the error makes the function return false, so the handler answers as for an absent
\* object; in GetFileSize, reached once FileExists has seen the object, the error is
\* returned and the handler answers 500.
FZStatFails(p) ==
    /\ \/ /\ pc[p] = "fz_stat"
          /\ Finish(p, [status |-> 400,
                        error |-> "file not found in storage - upload may have failed"])
       \/ /\ pc[p] = "fz_size"
          /\ Finish(p, [status |-> 500, error |-> "could not verify file size in storage"])
    /\ UNCHANGED << tables, users, blob, localFs, history >>

\* db.UpdateBuildFile returns an error: the UPDATE statement had no effect and the
\* handler answers 500 with the error's text.
FZUpdateFails(p) ==
    /\ pc[p] = "fz_update"
    /\ Finish(p, [status |-> 500, error |-> "database error"])
    /\ UNCHANGED << tables, users, blob, localFs, history >>

\* ------------------------------------------------- read-only handlers
\* A read-only handler changes no table.  Each of its database and object-store calls
\* is a step of the worker that serves it; advancedSeen records the builds some read
\* has found processing or completed.

\* The targets of a read request, as strings.Split(target, "/") sees them: the
\* well-formed ones on a namespace of NS, and those with a missing or malformed one.
GameTargets(NS) == {<< ns, g >> : ns \in NS, g \in Titles}
ReadTargets(NS) == GameTargets(NS) \cup {<< >>, << "alice" >>}

\* The target checks of ListChannels and GetChannel: the error answered with 400.
ReadTargetError(target) ==
    IF target = << >> THEN "missing build target (need game_id or target)"
    ELSE IF Len(target) # 2 THEN "invalid target format, expected username/gamename"
    ELSE ""

\* The "head" object of a channel response, from the builds row as GetBuildByID reads it.
HeadData(b) ==
    [id |-> b, state |-> builds[b].state]
      @@ (IF builds[b].user_version # ""
            THEN [user_version |-> builds[b].user_version] ELSE << >>)
      @@ (IF builds[b].parent_build_id # 0
            THEN [parent_build_id |-> builds[b].parent_build_id] ELSE << >>)

ChannelDataNoHead(ch, uploadID) ==
    [name |-> ch.name, upload |-> [id |-> uploadID]]

\* The JSON object of one channel, from the copy ch of its row read earlier: name,
\* upload id and, if GetBuildByID finds its current build, head.
ChannelData(ch, uploadID) ==
    IF ch.current_build_id \in 1..Len(builds)
      THEN [name |-> ch.name, upload |-> [id |-> uploadID],
            head |-> HeadData(ch.current_build_id)]
      ELSE [name |-> ch.name, upload |-> [id |-> uploadID]]

\* The copies of an upload's channel rows, as GetChannelsByUploadID returns them.
ChannelCopies(uploadID) ==
    LET cs == GetChannelsByUploadID(uploadID)
    IN  [i \in 1..Len(cs) |-> ChannelCopy(cs[i])]

\* The build a read has just found processing or completed, as a set.
Advanced(b) ==
    IF b \in 1..Len(builds) /\ builds[b].state # "started" THEN {b} ELSE {}

\* The user id ListChannels looks the game up with.
ListGameOwner(u, namespace) == u

LCLocals(game) ==
    [game |-> game, uploads |-> << >>, upload |-> 0, chans |-> << >>, acc |-> << >>]

\* GET /wharf/channels?target=namespace/gamename with a credential of US and a target
\* of TS passes AuthMiddleware.
AuthListChannels(p, US, TS) ==
    /\ Idle(p)
    /\ \E u \in US \cap ActiveUserIds, t \in TS :
        AuthMiddleware(p, [op |-> "ListChannels", user |-> u, target |-> t], "lc_start")
    /\ UNCHANGED << tables, users, blob, localFs, history >>

\* ListChannels: the target checks, the access check and GetGameByUserAndTitle.
StartListChannels(p) ==
    /\ pc[p] = "lc_start"
    /\ LET u == req[p].user
           t == req[p].target
           ns == TargetParts(t).ns
           g == TargetParts(t).game
           r == [op |-> "ListChannels", user |-> u, target |-> t, ns |-> ns, game |-> g]
           game == GetGameByUserAndTitle(ListGameOwner(u, ns), g)
       IN  IF ReadTargetError(t) # ""
             THEN Finish(p, [status |-> 400, error |-> ReadTargetError(t)])
             ELSE IF ~CanAccessNamespace(u, ns)
             THEN Respond(p, r, [status |-> 403])
             ELSE IF game = 0
             THEN Respond(p, r, [status |-> 404])
             ELSE /\ pc' = [pc EXCEPT ![p] = "lc_uploads"]
                  /\ req' = [req EXCEPT ![p] = r]
                  /\ loc' = [loc EXCEPT ![p] = LCLocals(game)]
                  /\ last' = NoLast
    /\ UNCHANGED << tables, users, blob, localFs, history >>

\* ListChannels: GetUploadsByGameID(game.ID).
LCListUploads(p) ==
    /\ pc[p] = "lc_uploads"
    /\ LET us == GetUploadsByGameID(loc[p].game)
       IN  IF Len(us) = 0
             THEN Finish(p, [status |-> 200, channels |-> << >>])
             ELSE Goto(p, "lc_channels", [loc[p] EXCEPT !.uploads = us])
    /\ UNCHANGED << tables, users, blob, localFs, history >>

\* ListChannels, outer loop: GetChannelsByUploadID of the next upload.
LCListChannels(p) ==
    /\ pc[p] = "lc_channels"
    /\ LET u == Head(loc[p].uploads)
           cs == ChannelCopies(u)
       IN  IF Len(cs) > 0
             THEN Goto(p, "lc_build",
                       [loc[p] EXCEPT !.uploads = Tail(@), !.upload = u, !.chans = cs])
             ELSE IF Len(loc[p].uploads) > 1
             THEN Goto(p, "lc_channels", [loc[p] EXCEPT !.uploads = Tail(@)])
             ELSE Finish(p, [status |-> 200, channels |-> loc[p].acc])
    /\ UNCHANGED << tables, users, blob, localFs, history >>

\* ListChannels, inner loop: GetBuildByID of the next channel's current build.  The
\* channel goes into the "channels" map under its name, replacing an earlier channel of
\* that name; a channel whose current build cannot be read is skipped.
LCGetBuild(p) ==
    /\ pc[p] = "lc_build"
    /\ LET ch == Head(loc[p].chans)
           acc == IF ch.current_build_id # 0 /\ ch.current_build_id \notin 1..Len(builds)
                    THEN loc[p].acc
                    ELSE (ch.name :> ChannelData(ch, loc[p].upload)) @@ loc[p].acc
       IN  /\ advancedSeen' = advancedSeen \cup Advanced(ch.current_build_id)
           /\ IF Len(loc[p].chans) > 1
                THEN Goto(p, "lc_build", [loc[p] EXCEPT !.chans = Tail(@), !.acc = acc])
                ELSE IF Len(loc[p].uploads) > 0
                THEN Goto(p, "lc_channels", [loc[p] EXCEPT !.chans = << >>, !.acc = acc])
                ELSE Finish(p, [status |-> 200, channels |-> acc])
    /\ UNCHANGED << tables, users, blob, localFs, pushed, procWrites, failedPushes >>

ListChannels(p, US, TS) ==
    \/ AuthListChannels(p, US, TS)
    \/ StartListChannels(p)
    \/ LCListUploads(p)
    \/ LCListChannels(p)
    \/ LCGetBuild(p)

\* The user id GetChannel looks the game up with: the acting user's on their own
\* namespace, else the one GetUserByUsername finds (0 if none).
TargetUserID(u, namespace) ==
    IF users[u].username = namespace THEN u ELSE GetUserByUsername(namespace)

\* The checks of GetChannel before it looks for the game, existence first.
GetChannelEntryExistenceFirst(u, namespace) ==
    IF GetUserByUsername(namespace) = 0 THEN 404
    ELSE IF ~CanAccessNamespace(u, namespace) THEN 403
    ELSE 0

\* The checks of GetChannel before it looks for the game: the status answered, 0 if
\* the handler goes on.
GetChannelEntry(u, namespace) ==
    IF ~CanAccessNamespace(u, namespace) THEN 403
    ELSE IF TargetUserID(u, namespace) = 0 THEN 404
    ELSE 0

GCLocals(owner) ==
    [owner |-> owner, game |-> 0, uploads |-> << >>, upload |-> 0, found |-> NoChannel]

\* GET /wharf/channels/{channel}?target=namespace/gamename with a credential of US, a
\* target of TS and a channel name of CS passes AuthMiddleware.
AuthGetChannel(p, US, TS, CS) ==
    /\ Idle(p)
    /\ \E u \in US \cap ActiveUserIds, t \in TS, c \in CS :
        AuthMiddleware(p, [op |-> "GetChannel", user |-> u, target |-> t, channel |-> c],
                       "gc_start")
    /\ UNCHANGED << tables, users, blob, localFs, history >>

\* GetChannel: the target checks, the access check and the lookup of the target user
\* (GetUserByUsername, when the namespace is not the acting user's).
StartGetChannel(p) ==
    /\ pc[p] = "gc_start"
    /\ LET u == req[p].user
           t == req[p].target
           ns == TargetParts(t).ns
           r == [op |-> "GetChannel", user |-> u, target |-> t, ns |-> ns,
                 game |-> TargetParts(t).game, channel |-> req[p].channel]
       IN  IF ReadTargetError(t) # ""
             THEN Finish(p, [status |-> 400, error |-> ReadTargetError(t)])
             ELSE IF GetChannelEntry(u, ns) # 0
             THEN Respond(p, r, [status |-> GetChannelEntry(u, ns)])
             ELSE /\ pc' = [pc EXCEPT ![p] = "gc_game"]
                  /\ req' = [req EXCEPT ![p] = r]
                  /\ loc' = [loc EXCEPT ![p] = GCLocals(TargetUserID(u, ns))]
                  /\ last' = NoLast
    /\ UNCHANGED << tables, users, blob, localFs, history >>

\* GetChannel: GetGameByUserAndTitle(targetUserID, gamename).
GCFindGame(p) ==
    /\ pc[p] = "gc_game"
    /\ LET game == GetGameByUserAndTitle(loc[p].owner, req[p].game)
       IN  IF game = 0
             THEN Finish(p, [status |-> 404])
             ELSE Goto(p, "gc_uploads", [loc[p] EXCEPT !.game = game])
    /\ UNCHANGED << tables, users, blob, localFs, history >>

\* GetChannel: GetUploadsByGameID(game.ID).
GCListUploads(p) ==
    /\ pc[p] = "gc_uploads"
    /\ LET us == GetUploadsByGameID(loc[p].game)
       IN  IF Len(us) = 0
             THEN Finish(p, [status |-> 404])
             ELSE Goto(p, "gc_channels", [loc[p] EXCEPT !.uploads = us])
    /\ UNCHANGED << tables, users, blob, localFs, history >>

\* The first channel of the name among the copies, NoChannel if there is none.
FindChannel(cs, channelName) ==
    LET S == {i \in 1..Len(cs) : cs[i].name = channelName}
    IN  IF S = {} THEN NoChannel ELSE cs[CHOOSE i \in S : \A j \in S : i <= j]

\* GetChannel, the search: GetChannelsByUploadID of the next upload.
GCListChannels(p) ==
    /\ pc[p] = "gc_channels"
    /\ LET u == Head(loc[p].uploads)
           ch == FindChannel(ChannelCopies(u), req[p].channel)
       IN  IF ch.id # 0
             THEN Goto(p, "gc_build",
                       [loc[p] EXCEPT !.uploads = << >>, !.upload = u, !.found = ch])
             ELSE IF Len(loc[p].uploads) > 1
             THEN Goto(p, "gc_channels", [loc[p] EXCEPT !.uploads = Tail(@)])
             ELSE Finish(p, [status |-> 404])
    /\ UNCHANGED << tables, users, blob, localFs, history >>

\* GetChannel: GetBuildByID of the found channel's current build, and the response.
GCGetBuild(p) ==
    /\ pc[p] = "gc_build"
    /\ advancedSeen' = advancedSeen \cup Advanced(loc[p].found.current_build_id)
    /\ Finish(p, [status |-> 200, channel |-> ChannelData(loc[p].found, loc[p].upload)])
    /\ UNCHANGED << tables, users, blob, localFs, pushed, procWrites, failedPushes >>

GetChannel(p, US, TS, CS) ==
    \/ AuthGetChannel(p, US, TS, CS)
    \/ StartGetChannel(p)
    \/ GCFindGame(p)
    \/ GCListUploads(p)
    \/ GCListChannels(p)
    \/ GCGetBuild(p)

\* GET /wharf/builds/{id}/files with a credential of US, the id a number or not,
\* passes AuthMiddleware.
AuthGetBuildFiles(p, US) ==
    /\ Idle(p)
    /\ \E u \in US \cap ActiveUserIds :
        \/ AuthMiddleware(p, [op |-> "GetBuildFiles", user |-> u, path |-> << "x" >>],
                          "bf_start")
        \/ \E b \in 1..(Len(builds) + 1) :
            AuthMiddleware(p, [op |-> "GetBuildFiles", user |-> u, build |-> b], "bf_start")
    /\ UNCHANGED << tables, users, blob, localFs, history >>

\* GetBuildFiles: an id that is no number is answered 400; else GetBuildByID.
StartGetBuildFiles(p) ==
    /\ pc[p] = "bf_start"
    /\ IF "path" \in DOMAIN req[p]
         THEN Finish(p, [status |-> 400, error |-> "invalid build id"])
         ELSE IF req[p].build > Len(builds)
         THEN Finish(p, [status |-> 404])
         ELSE Goto(p, "bf_list", NoLoc)
    /\ UNCHANGED << tables, users, blob, localFs, history >>

\* GetBuildFiles: GetBuildFilesByBuildID, and the response.
BFListFiles(p) ==
    /\ pc[p] = "bf_list"
    /\ LET fs == GetBuildFilesByBuildID(req[p].build)
       IN  Finish(p, [status |-> 200,
                      Files |-> [i \in 1..Len(fs) |->
                                   [id |-> fs[i], type |-> buildFiles[fs[i]].type,
                                    subType |-> buildFiles[fs[i]].sub_type,
                                    size |-> buildFiles[fs[i]].size,
                                    state |-> buildFiles[fs[i]].state]]])
    /\ UNCHANGED << tables, users, blob, localFs, history >>

GetBuildFiles(p, US) ==
    \/ AuthGetBuildFiles(p, US)
    \/ StartGetBuildFiles(p)
    \/ BFListFiles(p)

\* GET /wharf/builds/{buildId}/files/{fileId}/download with a credential of US, the
\* ids numbers or not, passes AuthMiddleware.
AuthGetBuildFileDownload(p, US) ==
    /\ Idle(p)
    /\ \E u \in US \cap ActiveUserIds :
        \/ \E path \in {<< "x", "1" >>, << "1", "x" >>} :
            AuthMiddleware(p, [op |-> "GetBuildFileDownload", user |-> u, path |-> path],
                           "dl_start")
        \/ \E b \in 1..(Len(builds) + 1), f \in 1..(Len(buildFiles) + 1) :
            AuthMiddleware(p, [op |-> "GetBuildFileDownload", user |-> u, build |-> b,
                               file |-> f], "dl_start")
    /\ UNCHANGED << tables, users, blob, localFs, history >>

\* GetBuildFileDownload: an id that is no number is answered 400; else GetBuildFileByID
\* and the ownership check.
StartGetBuildFileDownload(p) ==
    /\ pc[p] = "dl_start"
    /\ IF "path" \in DOMAIN req[p]
         THEN Finish(p, [status |-> 400,
                         error |-> IF req[p].path[1] = "x" THEN "invalid build id"
                                                           ELSE "invalid file id"])
         ELSE IF req[p].file > Len(buildFiles)
         THEN Finish(p, [status |-> 404, error |-> "build file not found"])
         ELSE IF buildFiles[req[p].file].build_id # req[p].build
         THEN Finish(p, [status |-> 400, error |-> "build file does not belong to build"])
         ELSE Goto(p, "dl_stat", [file |-> BuildFileCopy(req[p].file)])
    /\ UNCHANGED << tables, users, blob, localFs, history >>

\* GetBuildFileDownload: FileExists on the storage path, and the redirect to the signed
\* URL of the object.
DLStat(p) ==
    /\ pc[p] = "dl_stat"
    /\ IF ~FileExists(loc[p].file.storage_path)
         THEN Finish(p, [status |-> 404, error |-> "file not found in storage"])
         ELSE Finish(p, [status |-> 307, location |-> loc[p].file.storage_path])
    /\ UNCHANGED << tables, users, blob, localFs, history >>

GetBuildFileDownload(p, US) ==
    \/ AuthGetBuildFileDownload(p, US)
    \/ StartGetBuildFileDownload(p)
    \/ DLStat(p)

\* A call of a read handler returns an error: GetUploadsByGameID in ListChannels and
\* GetChannel, GetBuildFilesByBuildID in GetBuildFiles, GetSignedURL (once FileExists
\* has seen the object) in GetBuildFileDownload.  The handler answers 500.
ReadFails(p) ==
    /\ \/ /\ pc[p] \in {"lc_uploads", "gc_uploads"}
          /\ Finish(p, [status |-> 500, error |-> "failed to get uploads"])
       \/ /\ pc[p] = "bf_list"
          /\ Finish(p, [status |-> 500, error |-> "database error"])
       \/ /\ pc[p] = "dl_stat"
          /\ FileExists(loc[p].file.storage_path)
          /\ Finish(p, [status |-> 500, error |-> "could not generate download URL"])
    /\ UNCHANGED << tables, users, blob, localFs, history >>

\* The response of GET /builds/{id}.
GetBuildResponse(buildID) ==
    IF buildID > Len(builds) THEN [status |-> 404]
    ELSE [status |-> 200,
          build |-> IF builds[buildID].parent_build_id # 0
                      THEN [id |-> buildID, upload_id |-> builds[buildID].upload_id,
                            user_version |-> builds[buildID].user_version,
                            state |-> builds[buildID].state,
                            parent_build_id |-> builds[buildID].parent_build_id]
                      ELSE [id |-> buildID, upload_id |-> builds[buildID].upload_id,
                            user_version |-> builds[buildID].user_version,
                            state |-> builds[buildID].state]]

\* GET /builds/{id}, sent without an API key (OptionalAuthMiddleware then makes no
\* lookup): GetBuildByID, the request's only call, and the response.
GetBuild ==
    /\ \E b \in 1..(Len(builds) + 1) :
        /\ last' = [req |-> [op |-> "GetBuild", build |-> b], resp |-> GetBuildResponse(b)]
        /\ advancedSeen' = advancedSeen \cup Advanced(b)
    /\ UNCHANGED << tables, users, blob, localFs, pc, req, loc, pushed, procWrites,
                    failedPushes >>

\* ------------------------------------------------------ specification
Init ==
    /\ users = SeedUsers
    /\ games = << >>
    /\ uploads = << >>
    /\ builds = << >>
    /\ buildFiles = << >>
    /\ channels = << >>
    /\ blob = << >>
    /\ localFs = << >>
    /\ pc = [p \in Procs \cup {CliProc} |-> "idle"]
    /\ req = [p \in Procs \cup {CliProc} |-> NoReq]
    /\ loc = [p \in Procs \cup {CliProc} |-> NoLoc]
    /\ pushed = << >>
    /\ procWrites = << >>
    /\ advancedSeen = {}
    /\ failedPushes = << >>
    /\ last = NoLast

\* The database after alice's first push to alice/demo on channel main.
InitOnePush ==
    /\ users = SeedUsers
    /\ games = << [user_id |-> 1, title |-> "demo"] >>
    /\ uploads = << [game_id |-> 1] >>
    /\ builds = << [upload_id |-> 1, user_version |-> "1.0", parent_build_id |-> 0,
                    state |-> "started"] >>
    /\ buildFiles = << >>
    /\ channels = << [name |-> "main", upload_id |-> 1, current_build_id |-> 1] >>
    /\ blob = << >>
    /\ localFs = << >>
    /\ pc = [p \in Procs \cup {CliProc} |-> "idle"]
    /\ req = [p \in Procs \cup {CliProc} |-> NoReq]
    /\ loc = [p \in Procs \cup {CliProc} |-> NoLoc]
    /\ pushed = << [ns |-> "alice", game |-> "demo", channel |-> "main"] >>
    /\ procWrites = << 0 >>
    /\ advancedSeen = {}
    /\ failedPushes = << >>
    /\ last = NoLast

\* The database after two pushes to alice/demo, channel main: the second build has the
\* first as parent and is the channel's current build; no file registered yet.
InitTwoPushes ==
    /\ users = SeedUsers
    /\ games = << [user_id |-> 1, title |-> "demo"] >>
    /\ uploads = << [game_id |-> 1] >>
    /\ builds = << [upload_id |-> 1, user_version |-> "1.0", parent_build_id |-> 0,
                    state |-> "started"],
                   [upload_id |-> 1, user_version |-> "1.0", parent_build_id |-> 1,
                    state |-> "started"] >>
    /\ buildFiles = << >>
    /\ channels = << [name |-> "main", upload_id |-> 1, current_build_id |-> 2] >>
    /\ blob = << >>
    /\ localFs = << >>
    /\ pc = [p \in Procs \cup {CliProc} |-> "idle"]
    /\ req = [p \in Procs \cup {CliProc} |-> NoReq]
    /\ loc = [p \in Procs \cup {CliProc} |-> NoLoc]
    /\ pushed = << [ns |-> "alice", game |-> "demo", channel |-> "main"],
                   [ns |-> "alice", game |-> "demo", channel |-> "main"] >>
    /\ procWrites = << 0, 0 >>
    /\ advancedSeen = {}
    /\ failedPushes = << >>
    /\ last = NoLast

\* The database after two overlapping first pushes by alice to alice/demo, channel main,
\* both answered: each scanned the game's uploads before the other's channel existed, so
\* each created its own Upload and its own Channel main on it.
InitOverlapped ==
    /\ users = SeedUsers
    /\ games = << [user_id |-> 1, title |-> "demo"] >>
    /\ uploads = << [game_id |-> 1], [game_id |-> 1] >>
    /\ builds = << [upload_id |-> 1, user_version |-> "1.0", parent_build_id |-> 0,
                    state |-> "started"],
                   [upload_id |-> 2, user_version |-> "1.0", parent_build_id |-> 0,
                    state |-> "started"] >>
    /\ buildFiles = << >>
    /\ channels = << [name |-> "main", upload_id |-> 1, current_build_id |-> 1],
                     [name |-> "main", upload_id |-> 2, current_build_id |-> 2] >>
    /\ blob = << >>
    /\ localFs = << >>
    /\ pc = [p \in Procs \cup {CliProc} |-> "idle"]
    /\ req = [p \in Procs \cup {CliProc} |-> NoReq]
    /\ loc = [p \in Procs \cup {CliProc} |-> NoLoc]
    /\ pushed = << [ns |-> "alice", game |-> "demo", channel |-> "main"],
                   [ns |-> "alice", game |-> "demo", channel |-> "main"] >>
    /\ procWrites = << 0, 0 >>
    /\ advancedSeen = {}
    /\ failedPushes = << >>
    /\ last = NoLast

\* Requests run one at a time: a step is taken by a worker while every other is idle.
Sequential(p) == \A q \in Procs \ {p} : Idle(q)

\* The namespace owner's credential and namespace, for reads that only observe.
Owner == {1}
OwnerNs == {"alice"}

NextPush ==
    \/ \E p \in Procs : CreateBuild(p)
    \/ \E p \in Procs : OAuthAuthorize(p, ButlerQueries)

NextReads ==
    \/ CreateBuild("w1")
    \/ \E p \in Procs : ListChannels(p, UserIds, ReadTargets(Namespaces))
    \/ \E p \in Procs : GetChannel(p, UserIds, ReadTargets(Namespaces), ChannelNames)

NextSeqReads ==
    \E p \in Procs :
        /\ Sequential(p)
        /\ \/ CreateBuildAnyVersion(p)
           \/ ListChannels(p, UserIds, ReadTargets(Namespaces))
           \/ GetChannel(p, UserIds, ReadTargets(Namespaces), ChannelNames)

NextUsers ==
    \/ AuthCreateBuildOn("w1", {"main"}, Versions, MaxBuilds)
    \/ CreateBuildSteps("w1")
    \/ ListChannels("w1", UserIds, GameTargets(Namespaces))
    \/ GetChannel("w1", UserIds, GameTargets(Namespaces), ChannelNames)
    \/ OAuthAuthorize("w2", OAuthQueries)
    \/ CreateUser(NewUsernames, Roles)
    \/ DeactivateUser(Usernames)
    \/ ActivateUser(Usernames)
    \/ Unauthorized

NextFiles ==
    \/ \E p \in Procs : CreateBuildFile(p)
    \/ \E p \in Procs : FinalizeBuildFile(p)
    \/ ClientUpload(DeclaredSizes)

NextSizes ==
    \/ CreateBuildFile("w1")
    \/ FinalizeBuildFile("w1")
    \/ ClientUpload(Sizes)

NextTwoBuilds ==
    \/ /\ Sequential("w1")
       /\ \A f \in 1..Len(buildFiles) : buildFiles[f].state = "uploading"
       /\ CreateBuildFile("w1")
    \/ \E p \in Procs : FinalizeBuildFile(p)
    \/ ClientUpload(DeclaredSizes)

NextObserve ==
    \/ \E p \in Procs : CreateBuildFile(p)
    \/ \E p \in Procs : FinalizeBuildFile(p)
    \/ ClientUpload(DeclaredSizes)
    \/ \E p \in Procs : ListChannels(p, Owner, GameTargets(OwnerNs))
    \/ \E p \in Procs : GetChannel(p, Owner, GameTargets(OwnerNs), {"main"})
    \/ GetBuild

NextArchive ==
    \/ \E p \in Procs : CreateBuildFile(p)
    \/ \E p \in Procs : FinalizeBuildFile(p)
    \/ \E p \in Procs : ArchiveFailure(p)
    \/ ClientUpload(DeclaredSizes)

NextFaults ==
    \/ \E p \in Procs : CreateBuildFile(p)
    \/ \E p \in Procs : FinalizeBuildFile(p)
    \/ \E p \in Procs : FZStatFails(p)
    \/ \E p \in Procs : FZUpdateFails(p)
    \/ ClientUpload(DeclaredSizes)

NextAnyChannel ==
    \E p \in Procs : Sequential(p) /\ CreateBuildAnyChannel(p)

NextReadFaults ==
    \/ \E p \in Procs : CreateBuildFile(p)
    \/ \E p \in Procs : FinalizeBuildFile(p)
    \/ \E p \in Procs : ARZipReadFails(p)
    \/ ClientUpload(DeclaredSizes)

NextStateFaults ==
    \/ \E p \in Procs : CreateBuildFile(p)
    \/ \E p \in Procs : FinalizeBuildFile(p)
    \/ \E p \in Procs : CKSetCompletedFails(p)
    \/ ClientUpload(DeclaredSizes)

NextRetry ==
    \E p \in Procs :
        /\ Sequential(p)
        /\ \/ CreateBuild(p)
           \/ CBInsertBuildFails(p)

NextEndToEnd ==
    \/ /\ \A f \in 1..Len(buildFiles) : buildFiles[f].state # "uploading"
       /\ CreateBuild("w1")
    \/ CreateBuildFile("w1")
    \/ FinalizeBuildFile("w1")
    \/ ClientUpload(DeclaredSizes)
    \/ ListChannels("w1", Owner, GameTargets(OwnerNs))

NextSeqPush ==
    \E p \in Procs :
        /\ Sequential(p)
        /\ \/ AuthCreateBuildOn(p, ChannelNames, Versions, MaxPushes)
           \/ CreateBuildSteps(p)

Next ==
    \/ \E p \in Procs : CreateBuild(p)
    \/ \E p \in Procs : CreateBuildFile(p)
    \/ \E p \in Procs : FinalizeBuildFile(p)
    \/ ClientUpload(Sizes)
    \/ TestMinio
    \/ \E p \in Procs : ListChannels(p, UserIds, ReadTargets(Namespaces))
    \/ \E p \in Procs : GetChannel(p, UserIds, ReadTargets(Namespaces), ChannelNames)
    \/ \E p \in Procs : GetBuildFiles(p, FileActors)
    \/ \E p \in Procs : GetBuildFileDownload(p, FileActors)
    \/ \E p \in Procs : ReadFails(p)
    \/ GetBuild
    \/ \E p \in Procs : OAuthAuthorize(p, OAuthQueries)
    \/ CreateUser(NewUsernames, Roles)
    \/ DeactivateUser(Usernames)
    \/ ActivateUser(Usernames)
    \/ Unauthorized

Spec == Init /\ [][Next]_vars

\* Concurrent pushes, while the OAuth endpoint may create the user "testuser".
SpecPush == Init /\ [][NextPush]_vars

\* Concurrent pushes and channel reads.
SpecReads == Init /\ [][NextReads]_vars

\* Pushes, with or without a user version, and channel reads, one request at a time.
SpecSeqReads == Init /\ [][NextSeqReads]_vars

\* Pushes (to channel main) and channel reads served by one worker, while the other
\* serves the OAuth endpoint and a CLI process creates, deactivates and activates users,
\* each of their database calls at any moment, also between a request's authentication
\* and its handler.
SpecUsers == Init /\ [][NextUsers]_vars

\* Concurrent file registration, upload and finalization on an existing build.
SpecFiles == InitOnePush /\ [][NextFiles]_vars

\* File registration and finalization served by one worker, while the client puts
\* objects of any size to the upload URLs it was given, again and again.
SpecSizes == InitOnePush /\ [][NextSizes]_vars

\* The same with every object uploaded at its declared size, and the owner reading the
\* build's state through ListChannels, GetChannel and GetBuild at any moment.
SpecObserve == InitOnePush /\ [][NextObserve]_vars

\* File registration, upload and finalization where Archive Assembly may fail at any
\* of its steps.
SpecArchive == InitOnePush /\ [][NextArchive]_vars

\* File registration, upload and finalization where the object store's stat and the
\* build-file update may fail at any finalize.
SpecFaults == InitOnePush /\ [][NextFaults]_vars

\* File registration, upload and finalization where Archive Assembly may fail to read
\* one of the objects it copies.
SpecReadFaults == InitOnePush /\ [][NextReadFaults]_vars

\* File registration, upload and finalization where the write of the completed state
\* may fail.
SpecStateFaults == InitOnePush /\ [][NextStateFaults]_vars

\* Pushes, one request at a time, where the build insert may fail.
SpecRetry == Init /\ [][NextRetry]_vars

\* Whole pushes from an empty database, one after another and all served by one worker:
\* a build is created once every file registered so far is finalized, its files are
\* registered, uploaded and finalized, and the owner lists the channels.
SpecEndToEnd == Init /\ [][NextEndToEnd]_vars

\* Two builds of one channel: the files are registered first (one request at a time,
\* before any of them is finalized, as a push does), uploaded at any moment, and
\* finalized by two concurrent workers.
SpecTwoBuilds == InitTwoPushes /\ [][NextTwoBuilds]_vars

\* Pushes, one request at a time, whose channel field may be missing.
SpecAnyChannel == Init /\ [][NextAnyChannel]_vars

\* Pushes, one request at a time.
SpecSeqPush == Init /\ [][NextSeqPush]_vars

\* Pushes, one request at a time, from the empty database or from the database two
\* overlapping first pushes have left, where two Uploads serve one channel name.
SpecSeqPushOn == (Init \/ InitOverlapped) /\ [][NextSeqPush]_vars

\* -------------------------------------------------------------- claims
AllIdle == \A p \in Procs : Idle(p)

\* The files of build b that a client registered / that Archive Assembly created.
ClientFilesOf(b) == {f \in ClientFiles : buildFiles[f].build_id = b}
ArchiveFilesOf(b) ==
    {f \in 1..Len(buildFiles) : /\ buildFiles[f].build_id = b
                                /\ buildFiles[f].type = "archive"
                                /\ buildFiles[f].storage_path.kind = "files"}

\* The user who owns the game a build belongs to.
BuildOwner(b) == games[uploads[builds[b].upload_id].game_id].user_id

\* The (namespace, game, channel) a channel row serves.
ChannelTarget(c) ==
    LET g == games[uploads[channels[c].upload_id].game_id]
    IN  [ns |-> users[g.user_id].username, game |-> g.title, channel |-> channels[c].name]

StateRank(st) == IF st = "started" THEN 0 ELSE IF st = "processing" THEN 1 ELSE 2

\* C1: for every build, the started -> processing write of the completion
\* evaluation happens at most once, whatever the interleaving of finalize requests.
C1_AtMostOnceTransition ==
    \A b \in 1..Len(builds) : procWrites[b] <= 1

\* C2: once both finalize requests on a build with two registered files have
\* returned with both files uploaded, the build is completed and has exactly one
\* archive BuildFile created by Archive Assembly.
C2_ExactlyOneArchive ==
    \A b \in 1..Len(builds) :
        ( /\ AllIdle
          /\ Cardinality(ClientFilesOf(b)) = 2
          /\ \A f \in ClientFilesOf(b) : buildFiles[f].state = "uploaded" )
        => /\ builds[b].state = "completed"
           /\ Cardinality(ArchiveFilesOf(b)) = 1

\* C3: whenever no CreateBuild request is in progress, every channel's current-build
\* pointer is the greatest build id among the builds pushed to its
\* (namespace, game, channel).
C3_PointerIsLatestBuild ==
    AllIdle =>
        \A c \in 1..Len(channels) :
            LET mine == {b \in 1..Len(builds) : pushed[b] = ChannelTarget(c)}
            IN  mine # {} => channels[c].current_build_id = MaxOf(mine)

\* C4: every write to a build's state moves it forward in the order
\* started < processing < completed; a stored state never regresses.
C4_StateNeverRegresses ==
    [][\A b \in 1..Len(builds) :
          StateRank(builds'[b].state) >= StateRank(builds[b].state)]_vars

\* The build ids the answered read reports in state started: the build of a GetBuild,
\* the head of a GetChannel.  Either response is made in the step that reads the build.
StartedHeads ==
    IF last.resp.status # 200 THEN {}
    ELSE IF last.req.op = "GetChannel"
      THEN IF "head" \in DOMAIN last.resp.channel /\ last.resp.channel.head.state = "started"
             THEN {last.resp.channel.head.id} ELSE {}
    ELSE IF last.req.op = "GetBuild"
      THEN IF last.resp.build.state = "started" THEN {last.resp.build.id} ELSE {}
    ELSE {}

\* C5: once a read has observed a build as processing or completed, no later read
\* (GetBuild, ListChannels head, GetChannel head) observes it as started: the stored
\* state of such a build is not started, a GetBuild or GetChannel answers no started
\* state for it, and a ListChannels that reads it puts no started head into its listing.
C5_ObservedStateMonotonic ==
    /\ [](\A b \in advancedSeen : builds[b].state # "started")
    /\ [](advancedSeen \cap StartedHeads = {})
    /\ [][\A p \in Procs :
            ( /\ pc[p] = "lc_build"
              /\ pc'[p] # "lc_build" \/ loc'[p] # loc[p]
              /\ Head(loc[p].chans).current_build_id \in advancedSeen )
            => LET ch == Head(loc[p].chans)
                   acc == IF pc'[p] = "idle" THEN last'.resp.channels ELSE loc'[p].acc
               IN  /\ ch.name \in DOMAIN acc
                   /\ acc[ch.name].head.id = ch.current_build_id
                   /\ acc[ch.name].head.state # "started"]_vars

\* C5 witness: a build that two racing finalize requests evaluated, and that a read has
\* seen advanced, is listed by ListChannels as the head of its channel, completed.
C5_Witness ==
    /\ last.req.op = "ListChannels"
    /\ last.resp.status = 200
    /\ "main" \in DOMAIN last.resp.channels
    /\ last.resp.channels["main"].head.id \in advancedSeen
    /\ last.resp.channels["main"].head.state = "completed"
    /\ procWrites[last.resp.channels["main"].head.id] = 2

\* C6: with pushes run one after another, a build's parent is the build created by the
\* preceding push to the same (namespace, game, channel), none for the first; the
\* response carries parentBuild.id exactly when there is a parent.
C6_ParentIsPrecedingPush ==
    /\ \A b \in 1..Len(builds) :
          LET prev == {a \in 1..(b - 1) : pushed[a] = pushed[b]}
          IN  builds[b].parent_build_id = IF prev = {} THEN 0 ELSE MaxOf(prev)
    /\ (last.req.op = "CreateBuild" /\ last.resp.status = 200) =>
          LET body == last.resp.body
              parent == builds[body.id].parent_build_id
          IN  /\ ("parentBuild" \in DOMAIN body) <=> (parent # 0)
              /\ parent # 0 => body.parentBuild.id = parent

\* C6 witness: the third push to a channel answers with parentBuild.id = 2, the build
\* of the second push, which UpdateChannel made the channel's current build.
C6_Witness ==
    /\ last.req.op = "CreateBuild"
    /\ last.resp.status = 200
    /\ last.resp.body.id = 3
    /\ "parentBuild" \in DOMAIN last.resp.body
    /\ last.resp.body.parentBuild.id = 2
    /\ builds[2].parent_build_id = 1
    /\ pushed[1] = pushed[2]
    /\ pushed[2] = pushed[3]

\* A namespace-addressed request by a standard user on a namespace not their own.
ForeignNamespaceRequest(r) ==
    /\ r.op \in {"ListChannels", "GetChannel", "CreateBuild"}
    /\ "ns" \in DOMAIN r
    /\ ~IsAdmin(r.user)
    /\ users[r.user].username # r.ns

\* C7: ListChannels, GetChannel and CreateBuild issued by a standard user against a
\* namespace other than their username are answered 403, never get past the access
\* check, and leave every table unchanged.
C7_ForeignNamespaceDenied ==
    /\ [](ForeignNamespaceRequest(last.req) => last.resp.status = 403)
    /\ [](\A p \in Procs : ~ForeignNamespaceRequest(req[p]))
    /\ [][ForeignNamespaceRequest(last'.req) => tables' = tables]_vars

\* C7 witness: bob's CreateBuild on alice/demo, which exists, is answered 403.
C7_Witness ==
    /\ last.req.op = "CreateBuild"
    /\ last.resp.status = 403
    /\ last.req.user = 2
    /\ last.req.ns = "alice"
    /\ Len(games) > 0

\* C8: the game a CreateBuild request resolves or creates for namespace/gamename is
\* owned by the user whose username is the namespace, whoever the acting user is;
\* no game is owned by anyone but a namespace owner.
C8_GameOwnedByNamespaceOwner ==
    /\ \A p \in Procs :
          pc[p] = "cb_uploads" =>
              /\ games[loc[p].game].user_id = GetUserByUsername(req[p].ns)
              /\ games[loc[p].game].title = req[p].game
    /\ \A g \in 1..Len(games) : users[games[g].user_id].username \in Namespaces

\* C8 witness: the administrator's push to alice/demo has just created the game,
\* and alice owns it.
C8_Witness ==
    \E p \in Procs :
        /\ pc[p] = "cb_uploads"
        /\ req[p].user = 3
        /\ req[p].ns = "alice"
        /\ \A q \in Procs \ {p} : Idle(q)
        /\ Len(builds) = 0
        /\ Len(games) = 1
        /\ games[loc[p].game].user_id = 1

RECURSIVE Concat(_)
Concat(seqs) == IF seqs = << >> THEN << >> ELSE Head(seqs) \o Concat(Tail(seqs))

\* The "channels" map of a sequence of channel rows: a later channel of a name replaces
\* an earlier one, and a channel whose current build is not found is left out.
RECURSIVE ChannelsMap(_, _)
ChannelsMap(cs, acc) ==
    IF cs = << >> THEN acc
    ELSE ChannelsMap(Tail(cs),
                     IF /\ channels[Head(cs)].current_build_id # 0
                        /\ channels[Head(cs)].current_build_id \notin 1..Len(builds)
                       THEN acc
                       ELSE (channels[Head(cs)].name
                               :> ChannelData(ChannelCopy(Head(cs)),
                                              channels[Head(cs)].upload_id)) @@ acc)

\* What a channel listing of namespace/gamename reports when it resolves the game of
\* the namespace owner and no row changes while it is made.
OwnerListing(namespace, gamename) ==
    LET game == GetGameByUserAndTitle(GetUserByUsername(namespace), gamename)
        us == GetUploadsByGameID(game)
    IN  IF game = 0 THEN [status |-> 404]
        ELSE [status |-> 200,
              channels |-> ChannelsMap(Concat([i \in 1..Len(us) |-> GetChannelsByUploadID(us[i])]),
                                       << >>)]

\* C9: for an acting user permitted on the namespace, ListChannels answers what the
\* namespace owner gets: the channels of the game owned by the namespace owner.
C9_ListResolvesNamespaceOwner ==
    ( /\ last.req.op = "ListChannels"
      /\ "ns" \in DOMAIN last.req
      /\ CanAccessNamespace(last.req.user, last.req.ns)
      /\ GetUserByUsername(last.req.ns) # 0 )
    => last.resp = OwnerListing(last.req.ns, last.req.game)

\* A finalize request answered "file not found in storage - upload may have failed".
FinalizeRejectedAbsent ==
    /\ last.req.op = "FinalizeBuildFile"
    /\ last.resp.status = 400
    /\ last.resp.error = "file not found in storage - upload may have failed"

\* C11: a FinalizeBuildFile whose object is absent from the bucket is answered 400 and
\* changes no row: a client-registered BuildFile stays uploading with size 0 and the
\* build keeps its state; a finalize that found the object absent never goes on to the update, and a
\* finalize answered 200 has its object in the bucket.
C11_FinalizeBeforeUpload ==
    /\ []((FinalizeRejectedAbsent /\ last.req.file \in ClientFiles) =>
            /\ buildFiles[last.req.file].state = "uploading"
            /\ buildFiles[last.req.file].size = 0
            /\ ~FileExists(buildFiles[last.req.file].storage_path))
    /\ []((last.req.op = "FinalizeBuildFile" /\ last.resp.status = 200) =>
            FileExists(buildFiles[last.req.file].storage_path))
    /\ [][\A p \in Procs :
            (pc[p] = "fz_stat" /\ pc'[p] # "fz_stat"
               /\ loc[p].file.storage_path \notin DOMAIN blob)
            => /\ tables' = tables
               /\ last'.req = req[p]
               /\ last'.resp.status = 400]_vars

\* C11 witness: file 1 of build 1 is registered, nothing was uploaded, and its
\* finalize has just been answered 400.
C11_Witness ==
    /\ FinalizeRejectedAbsent
    /\ last.req.file = 1
    /\ buildFiles[1].state = "uploading"
    /\ builds[1].state = "started"
    /\ blob = << >>

\* The byte length of the object stored for a BuildFile's storage path, -1 if there is
\* none: the bucket object of that name, or the file the server keeps for that path
\* under its local "storage/" directory.
StoredLength(path) ==
    IF path \in DOMAIN blob THEN blob[path]
    ELSE IF path.kind = "files" /\ StoragePath(path.build, path.id) \in DOMAIN localFs
      THEN localFs[StoragePath(path.build, path.id)]
    ELSE -1

\* C12: every BuildFile in state uploaded, client-registered or archive, has an object
\* stored at its storage path, and its size is that object's byte length.
C12_UploadedHasObject ==
    \A f \in 1..Len(buildFiles) :
        buildFiles[f].state = "uploaded" =>
            buildFiles[f].size = StoredLength(buildFiles[f].storage_path)

\* C13: on every successful FinalizeBuildFile the size stored on the BuildFile and the
\* size in the response are the size the bucket reported for the object at the file's
\* storage path when the handler asked for it, whatever size the caller declared: the
\* size the handler goes on with is the one GetFileSize returned, the update stores it
\* with state uploaded, and the response carries it.
C13_StoredSizeIsVerifiedSize ==
    [][\A p \in Procs :
         /\ (pc[p] = "fz_size" /\ pc'[p] = "fz_update")
               => /\ loc[p].file.storage_path \in DOMAIN blob
                  /\ loc'[p].file.size = blob[loc[p].file.storage_path]
                  /\ loc'[p].file.state = "uploaded"
         /\ (pc[p] = "fz_update" /\ pc'[p] = "ck_getbuild")
               => /\ buildFiles'[req[p].file].size = loc[p].file.size
                  /\ buildFiles'[req[p].file].state = "uploaded"
         /\ (pc[p] \in {"ck_getbuild", "ck_files", "ck_completed"} /\ pc'[p] = "idle")
               => /\ last'.resp.status = 200
                  /\ last'.resp.body.size = loc[p].file.size
                  /\ last'.resp.body.state = "uploaded"
                  /\ buildFiles'[req[p].file].size = loc[p].file.size
                  /\ buildFiles'[req[p].file].state = "uploaded"
         /\ (req[p].op = "FinalizeBuildFile" /\ pc'[p] = "idle" /\ last'.resp.status = 200)
               => pc[p] \in {"ck_getbuild", "ck_files", "ck_completed"}]_vars

\* C13 witness: a finalize that declared another size than the object's has succeeded.
C13_Witness ==
    /\ last.req.op = "FinalizeBuildFile"
    /\ last.resp.status = 200
    /\ last.req.size # last.resp.body.size
    /\ buildFiles[last.req.file].size = blob[buildFiles[last.req.file].storage_path]

\* C14: when Archive Assembly fails at any of its steps, the evaluation goes on: it
\* writes the build as completed and the finalize request that triggered it is answered
\* 200 with the file in state uploaded.
C14_ArchiveFailureSwallowed ==
    [][\A p \in Procs :
         /\ (pc[p] \in ArchiveSteps /\ pc'[p] \notin ArchiveSteps)
               => pc'[p] = "ck_completed"
         /\ (pc[p] = "ck_completed" /\ "failed" \in DOMAIN loc[p].archive /\ pc'[p] # pc[p])
               => /\ builds'[req[p].build].state = "completed"
                  /\ last'.req = req[p]
                  /\ last'.resp.status = 200
                  /\ last'.resp.body.id = req[p].file
                  /\ last'.resp.body.state = "uploaded"
                  /\ buildFiles'[req[p].file].state = "uploaded"]_vars

\* C14 witness: every file of build 1 is uploaded, Archive Assembly failed before it
\* created the archive row, the build is completed and the finalize was answered 200.
C14_Witness ==
    /\ AllIdle
    /\ last.req.op = "FinalizeBuildFile"
    /\ last.resp.status = 200
    /\ builds[1].state = "completed"
    /\ Cardinality(ClientFilesOf(1)) = 2
    /\ \A f \in ClientFilesOf(1) : buildFiles[f].state = "uploaded"
    /\ ArchiveFilesOf(1) = {}
    /\ Len(buildFiles) = 2

\* The game rows with a given owner and title.
GamesOf(userID, title) ==
    {g \in 1..Len(games) : games[g].user_id = userID /\ games[g].title = title}

\* C15: with CreateBuild calls run one after another, game resolution is an idempotent
\* create: a Game row is inserted only when no row with that owner and title exists, so
\* a later call for the same namespace and title reuses the row of the first.
C15_GameCreateIdempotent ==
    /\ [](\A g \in 1..Len(games) : GamesOf(games[g].user_id, games[g].title) = {g})
    /\ [][games' # games =>
            /\ Len(games') = Len(games) + 1
            /\ GamesOf(games'[Len(games')].user_id, games'[Len(games')].title) = {}]_vars
    /\ [](\A b \in 1..Len(builds) :
            LET g == games[uploads[builds[b].upload_id].game_id]
            IN  /\ g.title = pushed[b].game
                /\ users[g.user_id].username = pushed[b].ns)

\* C15 witness: the administrator's push to another channel of alice/demo has
\* succeeded as the second build, and there is still one Game row.
C15_Witness ==
    /\ last.req.op = "CreateBuild"
    /\ last.req.user = 3
    /\ last.resp.status = 200
    /\ last.resp.body.id = 2
    /\ pushed[1].game = pushed[2].game
    /\ pushed[1].ns = pushed[2].ns
    /\ pushed[1].channel # pushed[2].channel
    /\ Len(games) = 1

\* The upload rows of a game.
UploadsOf(gameID) == {u \in 1..Len(uploads) : uploads[u].game_id = gameID}

\* C16: when CreateBuild for a target failed at the build insert after creating the
\* Game and the Upload, and the retry of the same target and channel then succeeds as
\* the first build, that push has exactly one Game and exactly one Upload.
C16_RetryReusesGameAndUpload ==
    ( /\ AllIdle
      /\ last.req.op = "CreateBuild"
      /\ last.resp.status = 200
      /\ Len(builds) = 1
      /\ Len(failedPushes) > 0
      /\ \A i \in 1..Len(failedPushes) : failedPushes[i] = pushed[1] )
    => /\ Cardinality(GamesOf(GetUserByUsername(pushed[1].ns), pushed[1].game)) = 1
       /\ Cardinality(UploadsOf(uploads[builds[1].upload_id].game_id)) = 1

\* C17: authorization is decided before existence: a ListChannels, GetChannel or
\* CreateBuild request whose caller fails the access check for the target namespace is
\* answered exactly 403, whether or not the namespace owner, the game or the channel
\* exists.
C17_AuthorizationBeforeExistence ==
    ( /\ last.req.op \in {"ListChannels", "GetChannel", "CreateBuild"}
      /\ "ns" \in DOMAIN last.req
      /\ ~CanAccessNamespace(last.req.user, last.req.ns) )
    => last.resp = [status |-> 403]

\* C17 witness: bob's GetChannel on a namespace that has no owner, while alice/demo
\* exists with a channel, is answered 403.
C17_Witness ==
    /\ last.req.op = "GetChannel"
    /\ last.req.user = 2
    /\ GetUserByUsername(last.req.ns) = 0
    /\ last.resp.status = 403
    /\ Len(channels) > 0

\* Build b has registered files, each finalized successfully, and no request is running.
PushFinished(b) ==
    /\ AllIdle
    /\ ClientFilesOf(b) # {}
    /\ \A f \in ClientFilesOf(b) : buildFiles[f].state = "uploaded"

\* Build b is the latest build pushed to its (namespace, game, channel).
LatestOfTarget(b) == \A a \in 1..Len(builds) : pushed[a] = pushed[b] => a <= b

\* C18: after CreateBuild, the registration of the build's files, the client's uploads
\* and a successful finalize of every registered file, the build is completed, and a
\* ListChannels of the namespace owner for namespace/game reports the build's channel
\* with that build as head in state completed.
C18_EndToEndPush ==
    \A b \in 1..Len(builds) :
        PushFinished(b) =>
            /\ builds[b].state = "completed"
            /\ ( /\ last.req.op = "ListChannels"
                  /\ last.req.ns = pushed[b].ns
                  /\ last.req.game = pushed[b].game
                  /\ last.req.user = GetUserByUsername(pushed[b].ns)
                  /\ LatestOfTarget(b) )
               => /\ last.resp.status = 200
                  /\ pushed[b].channel \in DOMAIN last.resp.channels
                  /\ "head" \in DOMAIN last.resp.channels[pushed[b].channel]
                  /\ last.resp.channels[pushed[b].channel].head.id = b
                  /\ last.resp.channels[pushed[b].channel].head.state = "completed"

\* C18 witness: alice pushed alice/demo, two files of build 1 were registered, uploaded
\* and finalized, and her ListChannels reports the channel's head as build 1, completed.
C18_Witness ==
    /\ PushFinished(1)
    /\ Cardinality(ClientFilesOf(1)) = 2
    /\ last.req.op = "ListChannels"
    /\ last.req.user = 1
    /\ last.resp.status = 200
    /\ last.resp.channels[pushed[1].channel].head.id = 1
    /\ last.resp.channels[pushed[1].channel].head.state = "completed"

\* C19: a build leaves started only by the processing write of a completion evaluation
\* whose listing of the build's files was non-empty with every listed file uploaded; an
\* evaluation whose listing is empty or holds a file still uploading ends the finalize
\* without changing the build or creating a file; so a build that has left started has
\* an uploaded client file, and an archive exists only for a build that has left started.
C19_LeavesStartedOnlyWhenAllUploaded ==
    /\ [][\A b \in 1..Len(builds) :
            (builds[b].state = "started" /\ builds'[b].state # "started") =>
                \E p \in Procs :
                    /\ pc[p] = "ck_processing"
                    /\ req[p].build = b
                    /\ Len(loc[p].listed) > 0
                    /\ \A i \in 1..Len(loc[p].listed) :
                          /\ buildFiles[loc[p].listed[i]].build_id = b
                          /\ buildFiles[loc[p].listed[i]].state = "uploaded"
                    /\ builds'[b].state = "processing"]_vars
    /\ [][\A p \in Procs :
            ( /\ pc[p] = "ck_files"
              /\ pc'[p] # "ck_files"
              /\ \/ GetBuildFilesByBuildID(req[p].build) = << >>
                 \/ \E f \in 1..Len(buildFiles) :
                       buildFiles[f].build_id = req[p].build /\ buildFiles[f].state = "uploading" )
            => /\ builds' = builds
               /\ buildFiles' = buildFiles
               /\ pc'[p] = "idle"
               /\ last'.resp.status = 200]_vars
    /\ [](\A b \in 1..Len(builds) :
            /\ builds[b].state # "started" =>
                  \E f \in ClientFilesOf(b) : buildFiles[f].state = "uploaded"
            /\ ArchiveFilesOf(b) # {} => builds[b].state # "started")

\* C19 witness: file 1 of build 1 has just been finalized while file 2 is still
\* uploading: the build is still started and has no archive.
C19_Witness ==
    /\ AllIdle
    /\ last.req.op = "FinalizeBuildFile"
    /\ last.resp.status = 200
    /\ last.req.file = 1
    /\ buildFiles[1].state = "uploaded"
    /\ Len(buildFiles) = 2
    /\ buildFiles[2].state = "uploading"
    /\ buildFiles[2].build_id = 1
    /\ builds[1].state = "started"

\* C20: for every owner and title there is at most one Game row, also when CreateBuild
\* requests for the same not-yet-existing game overlap.
C20_GameUniquePerOwnerTitle ==
    \A g, h \in 1..Len(games) :
        (games[g].user_id = games[h].user_id /\ games[g].title = games[h].title) => g = h

\* C21: for every game and channel name, at most one Upload of that game has a Channel
\* with that name, in every interleaving of CreateBuild requests.
C21_OneUploadPerChannelName ==
    \A c, d \in 1..Len(channels) :
        ( /\ channels[c].name = channels[d].name
          /\ uploads[channels[c].upload_id].game_id = uploads[channels[d].upload_id].game_id )
        => channels[c].upload_id = channels[d].upload_id

\* The Uploads of a game, in listing order, that have a Channel with the name.
UploadsServing(gameID, name) ==
    SelectSeq(GetUploadsByGameID(gameID),
              LAMBDA u : \E c \in 1..Len(channels) :
                            channels[c].name = name /\ channels[c].upload_id = u)

\* The first two builds come from overlapping first pushes to one target: the second
\* has no parent, which a push served after the first to the same target has (C6).
OverlappedStart ==
    /\ Len(builds) >= 2
    /\ pushed[1] = pushed[2]
    /\ builds[2].parent_build_id = 0

\* C22: with CreateBuild calls run one after another, also on a database where two
\* Uploads of the game serve one channel name, a push to a channel name that some
\* Upload of the game already serves creates no Upload, puts the new Build on the first
\* such Upload in listing order and updates that Upload's Channel row; a push to a name
\* that no Upload of the game serves, a target never pushed before, creates exactly one
\* Upload and one Channel on it.  Hence each Upload has one Channel, and there are as
\* many Uploads as distinct targets (one more where the run started from two
\* overlapping first pushes).
C22_ChannelNameSelectsUpload ==
    /\ [](AllIdle => /\ Len(uploads) = Cardinality({pushed[b] : b \in 1..Len(builds)})
                                        + (IF OverlappedStart THEN 1 ELSE 0)
                     /\ Len(channels) = Len(uploads))
    /\ [][\A p \in Procs :
            LET serving == UploadsServing(loc[p].game, req[p].channel)
                b == Len(builds')
            IN  /\ (pc[p] = "cb_createupload" /\ uploads' # uploads)
                      => /\ serving = << >>
                         /\ Len(uploads') = Len(uploads) + 1
                         /\ \A a \in 1..Len(builds) :
                                pushed[a] # [ns |-> req[p].ns, game |-> req[p].game,
                                             channel |-> req[p].channel]
                /\ (pc[p] = "cb_createbuild" /\ builds' # builds)
                      => IF serving # << >>
                           THEN /\ builds'[b].upload_id = serving[1]
                                /\ uploads' = uploads
                           ELSE /\ builds'[b].upload_id = Len(uploads)
                                /\ \A a \in 1..Len(builds) :
                                       builds[a].upload_id # Len(uploads)
                /\ (pc[p] = "cb_upsert" /\ channels' # channels)
                      => IF serving # << >>
                           THEN \E c \in 1..Len(channels) :
                                  /\ channels[c].name = req[p].channel
                                  /\ channels[c].upload_id = serving[1]
                                  /\ channels' = [channels EXCEPT
                                                    ![c].current_build_id = Len(builds)]
                           ELSE channels' = Append(channels,
                                   [name |-> req[p].channel,
                                    upload_id |-> builds[Len(builds)].upload_id,
                                    current_build_id |-> Len(builds)])]_vars

\* C22 witness: Uploads 1 and 2 both serve channel main; the push to main just answered
\* is on Upload 1, the first in listing order, whose Channel row now points at its
\* build, and Upload 2's Channel row is as it was.
C22_Witness ==
    /\ AllIdle
    /\ Len(builds) = 3
    /\ UploadsServing(1, "main") = << 1, 2 >>
    /\ pushed[3].channel = "main"
    /\ builds[3].upload_id = 1
    /\ Len(uploads) = 2
    /\ channels[1].current_build_id = 3
    /\ channels[2].current_build_id = 2
    /\ last.req.op = "CreateBuild"
    /\ last.resp.status = 200

\* C23: in every reachable state, every Channel's current build is an existing Build of
\* the Channel's Upload, and every Build's parent, if set, is an existing Build of the
\* same Upload.
C23_PointersStayWithinUpload ==
    /\ \A c \in 1..Len(channels) :
          channels[c].current_build_id # 0
            => /\ channels[c].current_build_id \in 1..Len(builds)
               /\ builds[channels[c].current_build_id].upload_id = channels[c].upload_id
    /\ \A b \in 1..Len(builds) :
          builds[b].parent_build_id # 0
            => /\ builds[b].parent_build_id \in 1..Len(builds)
               /\ builds[builds[b].parent_build_id].upload_id = builds[b].upload_id

\* A second push moved a Channel to a Build whose parent is the Channel's former build.
C23_Witness ==
    \E c \in 1..Len(channels), b \in 1..Len(builds) :
        /\ channels[c].current_build_id = b
        /\ builds[b].parent_build_id # 0
        /\ builds[b].parent_build_id # b

\* C24: a Build's upload id, parent build id and user version never change after its
\* creation; the whole-row UpdateBuild calls of the completion evaluation, written from
\* a copy read earlier, change only the state, in every interleaving of finalizes.
C24_BuildLinkageImmutable ==
    [][\A b \in 1..Len(builds) :
          /\ b \in 1..Len(builds')
          /\ builds'[b].upload_id = builds[b].upload_id
          /\ builds'[b].parent_build_id = builds[b].parent_build_id
          /\ builds'[b].user_version = builds[b].user_version]_vars

\* The build that has a parent was completed by the evaluation, after both workers
\* wrote its row.
C24_Witness ==
    /\ builds[2].state = "completed"
    /\ builds[2].parent_build_id = 1
    /\ procWrites[2] >= 2

\* Worker p is finalizing a client file of the build it names that is already uploaded,
\* on a build that has already left started, and has not yet reached the completion
\* evaluation's answer.
RepeatedFinalize(p) ==
    /\ pc[p] \in {"fz_start", "fz_stat", "fz_size", "fz_update", "ck_getbuild"}
    /\ req[p].file \in ClientFiles
    /\ BelongsToBuild(req[p].file, req[p].build)
    /\ buildFiles[req[p].file].state = "uploaded"
    /\ builds[req[p].build].state # "started"

\* C25: with requests served one after another, a FinalizeBuildFile for a file that is
\* already uploaded, on a build that has left started, succeeds and changes nothing: the
\* file stays uploaded with the same size, the build keeps its state, and no Archive
\* Assembly runs (no archive BuildFile is added, nothing is written to local storage).
C25_FinalizeIdempotent ==
    [][RepeatedFinalize("w1") =>
          /\ builds' = builds
          /\ buildFiles' = buildFiles
          /\ localFs' = localFs
          /\ pc'["w1"] \in {pc["w1"], "fz_stat", "fz_size", "fz_update", "ck_getbuild", "idle"}
          /\ pc'["w1"] = "idle" =>
                /\ last'.resp.status = 200
                /\ last'.resp.body.size = buildFiles[req["w1"].file].size
                /\ last'.resp.body.state = "uploaded"]_vars

\* The only client file of a completed build is being finalized again: the stat and the
\* row update of the second call are done.
C25_Witness ==
    /\ pc["w1"] = "ck_getbuild"
    /\ RepeatedFinalize("w1")
    /\ ClientFilesOf(req["w1"].build) = {req["w1"].file}
    /\ builds[req["w1"].build].state = "completed"
    /\ ArchiveFilesOf(req["w1"].build) # {}

\* C26: a BuildFile's size and state are persisted together.  In every reachable state,
\* also while a finalize is under way, abandoned, or has failed at the stat or at the
\* update, a BuildFile in state uploading has no size set and a BuildFile in state
\* uploaded has its size set.
C26_SizeAndStateTogether ==
    \A f \in 1..Len(buildFiles) :
        /\ buildFiles[f].state \in {"uploading", "uploaded"}
        /\ buildFiles[f].state = "uploading" <=> buildFiles[f].size = 0

\* A finalize has failed at the update with the object in the bucket: its file is
\* untouched, while another file was finalized.
C26_Witness ==
    /\ last.req.op = "FinalizeBuildFile"
    /\ last.resp.status = 500
    /\ last.resp.error = "database error"
    /\ buildFiles[last.req.file].state = "uploading"
    /\ buildFiles[last.req.file].storage_path \in DOMAIN blob
    /\ \E g \in ClientFiles : buildFiles[g].state = "uploaded"

\* C27: FinalizeBuildFile(buildId, fileId) is answered 404 when no BuildFile has the
\* id, and 400 "build file does not belong to build" when the BuildFile belongs to
\* another build; either answer leaves every BuildFile and Build as it was, also when
\* the file's object is in the bucket.
C27_FinalizePreconditions ==
    /\ [](last.req.op = "FinalizeBuildFile" =>
            /\ last.req.file \notin 1..Len(buildFiles) <=> last.resp.status = 404
            /\ ( /\ last.req.file \in 1..Len(buildFiles)
                 /\ buildFiles[last.req.file].build_id # last.req.build )
               <=> ( /\ last.resp.status = 400
                     /\ last.resp.error = "build file does not belong to build" ))
    /\ [][( /\ last'.req.op = "FinalizeBuildFile"
            /\ \/ last'.resp.status = 404
               \/ /\ last'.resp.status = 400
                  /\ last'.resp.error = "build file does not belong to build" )
          => /\ buildFiles' = buildFiles
             /\ builds' = builds]_vars

\* A finalize naming the other build has been refused although the file's object is in
\* the bucket; the file is still uploading.
C27_Witness ==
    /\ last.req.op = "FinalizeBuildFile"
    /\ last.resp.status = 400
    /\ last.resp.error = "build file does not belong to build"
    /\ buildFiles[last.req.file].storage_path \in DOMAIN blob
    /\ buildFiles[last.req.file].state = "uploading"
    /\ buildFiles[last.req.file].size = 0

\* C28: a FinalizeBuildFile whose stat of the object store failed is never answered
\* like one whose object the store reported absent: the answer 400 "file not found in
\* storage - upload may have failed" is given only when the object is not in the
\* bucket, and a failed stat is answered with a server error; the file is not marked
\* uploaded by that request.
C28_StatFailureDistinguishable ==
    (FinalizeRejectedAbsent /\ last.req.file \in ClientFiles) =>
        ~FileExists(buildFiles[last.req.file].storage_path)

\* C29: a build-file registration on a build id that does not exist is answered 404
\* and creates no BuildFile; on an existing build it creates exactly one BuildFile, in
\* state uploading and belonging to that build, whose storage path, which is the upload
\* target returned, no other BuildFile has, also among files of one type and subType
\* on one build.
C29_RegisterBuildFile ==
    /\ [](\A f \in ClientFiles : \A g \in 1..Len(buildFiles) :
            f # g => buildFiles[f].storage_path # buildFiles[g].storage_path)
    /\ [](last.req.op = "CreateBuildFile" =>
            /\ last.resp.status \in {200, 404}
            /\ last.resp.status = 404 <=> last.req.build \notin 1..Len(builds))
    /\ [][(last'.req.op = "CreateBuildFile" /\ last'.resp.status = 404)
            => buildFiles' = buildFiles]_vars
    /\ [][(last'.req.op = "CreateBuildFile" /\ last'.resp.status = 200)
            => LET f == Len(buildFiles) + 1
               IN  /\ Len(buildFiles') = f
                   /\ SubSeq(buildFiles', 1, Len(buildFiles)) = buildFiles
                   /\ buildFiles'[f].build_id = last'.req.build
                   /\ buildFiles'[f].state = "uploading"
                   /\ last'.resp.body.id = f
                   /\ last'.resp.body.upload_url = buildFiles'[f].storage_path]_vars
    /\ [][\A p \in Procs :
            (pc[p] \in {"idle", "rf_start"} /\ pc'[p] \in {"rf_start", "rf_insert"}
               /\ pc'[p] # pc[p]) => buildFiles' = buildFiles]_vars

\* Two files of one type and subType are registered on one build, the second just now.
C29_Witness ==
    /\ last.req.op = "CreateBuildFile"
    /\ last.resp.status = 200
    /\ last.resp.body.id = 2
    /\ buildFiles[1].build_id = buildFiles[2].build_id
    /\ buildFiles[1].type = buildFiles[2].type
    /\ buildFiles[1].sub_type = buildFiles[2].sub_type
    /\ buildFiles[1].storage_path.kind = "upload"
    /\ buildFiles[1].storage_path # buildFiles[2].storage_path

\* A CreateBuild request answered before any lookup of games: 400 for its target, or
\* 404 because no user has the namespace as username.
RejectedEarly(l) ==
    /\ l.req.op = "CreateBuild"
    /\ l.resp.status \in {400, 404}

\* C30: a CreateBuild whose target is missing or does not have exactly two segments is
\* answered 400, one whose namespace is no user's username is answered 404 (when the
\* caller may access the namespace), and a CreateBuild answered 400 or 404 creates or
\* changes no Game, Upload, Build or Channel row.
C30_EarlyRejectionChangesNothing ==
    /\ []((last.req.op = "CreateBuild" /\ Len(last.req.target) # 2)
            => /\ last.resp.status = 400
               /\ last.resp.error = IF last.req.target = << >>
                                       THEN "missing target"
                                       ELSE "invalid target format")
    /\ []((/\ last.req.op = "CreateBuild"
           /\ Len(last.req.target) = 2
           /\ CanAccessNamespace(last.req.user, last.req.target[1])
           /\ GetUserByUsername(last.req.target[1]) = 0)
            => last.resp.status = 404)
    /\ [][RejectedEarly(last') =>
            /\ games' = games
            /\ uploads' = uploads
            /\ builds' = builds
            /\ channels' = channels]_vars
    /\ [](\A p \in Procs : (req[p].op = "CreateBuild" /\ pc[p] # "cb_start") =>
            /\ Len(req[p].target) = 2
            /\ GetUserByUsername(req[p].target[1]) # 0)

\* A three-segment target was refused while the database holds a game and a channel.
C30_Witness ==
    /\ last.req.op = "CreateBuild"
    /\ Len(last.req.target) = 3
    /\ last.resp.status = 400
    /\ Len(games) > 0
    /\ Len(channels) > 0

\* C31: a CreateBuild whose channel name is missing (empty) is refused, so it is never
\* answered 200, and no Channel with an empty name ever exists.
C31_EmptyChannelRejected ==
    /\ \A c \in 1..Len(channels) : channels[c].name # ""
    /\ (last.req.op = "CreateBuild" /\ last.req.channel = "") => last.resp.status # 200

\* The builds pushed to the target and channel of build b.
PushesLike(b) == {a \in 1..Len(builds) : pushed[a] = pushed[b]}

\* C32: pushes to different channels are independent.  A step of CreateBuild changes
\* only the Channel row of the channel it pushes to, no existing Build and no
\* BuildFile; a step of FinalizeBuildFile on a file of build b changes no Channel, no
\* other Build and no BuildFile of another build; and once the requests have returned,
\* each channel's pointer and each build's parent are determined by the pushes to that
\* channel alone, whatever the order of the pushes to other channels.
C32_ChannelsIndependent ==
    /\ [][LET r == req["w1"]
          IN  /\ r.op = "CreateBuild" =>
                    /\ SubSeq(builds', 1, Len(builds)) = builds
                    /\ buildFiles' = buildFiles
                    /\ \A c \in 1..Len(channels) :
                          channels[c].name # r.channel => channels'[c] = channels[c]
              /\ r.op = "FinalizeBuildFile" =>
                    /\ channels' = channels
                    /\ Len(builds') = Len(builds)
                    /\ \A a \in 1..Len(builds) : a # r.build => builds'[a] = builds[a]
                    /\ \A f \in 1..Len(buildFiles) :
                          buildFiles[f].build_id # r.build => buildFiles'[f] = buildFiles[f]
                    /\ \A f \in 1..Len(buildFiles') :
                          f > Len(buildFiles) => buildFiles'[f].build_id = r.build]_vars
    /\ [](AllIdle =>
            \A b \in 1..Len(builds) :
                LET earlier == {a \in PushesLike(b) : a < b}
                IN  /\ builds[b].parent_build_id =
                          (IF earlier = {} THEN 0 ELSE MaxOf(earlier))
                    /\ \E c \in 1..Len(channels) :
                          /\ channels[c].name = pushed[b].channel
                          /\ channels[c].upload_id = builds[b].upload_id
                          /\ channels[c].current_build_id = MaxOf(PushesLike(b)))

\* Two pushes to different channels of one game: the first build was completed by its
\* finalize, the second has a registered file and is still started.
C32_Witness ==
    /\ AllIdle
    /\ Len(builds) = 2
    /\ pushed[1].channel # pushed[2].channel
    /\ builds[1].state = "completed"
    /\ builds[2].state = "started"
    /\ ClientFilesOf(2) # {}
    /\ \E c, d \in 1..Len(channels) :
          channels[c].current_build_id = 1 /\ channels[d].current_build_id = 2

\* C33: Archive Assembly tolerates the failure to read an individual source file: once
\* it has gone through the listed files, at open or while streaming, it goes on to
\* create the archive BuildFile.
C33_ReadFailureTolerated ==
    [][\A p \in Procs :
         (pc[p] = "ar_zip" /\ pc'[p] # "ar_zip") => pc'[p] = "ar_create"]_vars

\* C34: no completion is lost.  In every interleaving of registrations, uploads and
\* finalizes, once every request has returned and every file registered on a build is
\* uploaded, at least one completion evaluation has seen all files uploaded and the
\* build is completed: it never rests in started (or processing) with all of its files
\* uploaded.
C34_NoLostCompletion ==
    \A b \in 1..Len(builds) :
        PushFinished(b) => /\ procWrites[b] >= 1
                           /\ builds[b].state = "completed"

\* Two files of one build were finalized by overlapping requests, both evaluations saw
\* every file uploaded, and both requests have returned.
C34_Witness ==
    /\ PushFinished(1)
    /\ Cardinality(ClientFilesOf(1)) = 2
    /\ procWrites[1] = 2
    /\ builds[1].state = "completed"

\* C35: processing is transient: once the requests that were running have returned, no
\* build is left in processing, also when the write of the completed state failed.
C35_ProcessingTransient ==
    AllIdle => \A b \in 1..Len(builds) : builds[b].state # "processing"

\* C36: in every reachable state, every BuildFile of a build in state completed is in
\* state uploaded.
C36_CompletedBuildHasOnlyUploadedFiles ==
    \A f \in 1..Len(buildFiles) :
        builds[buildFiles[f].build_id].state = "completed" => buildFiles[f].state = "uploaded"

\* C37: the lineage of a channel is linear: among the builds pushed to one channel of
\* one game, no two have the same parent and at most one has no parent, in every
\* interleaving of CreateBuild requests.
C37_LineageLinear ==
    \A a, b \in 1..Len(builds) :
        (a # b /\ pushed[a] = pushed[b])
            => builds[a].parent_build_id # builds[b].parent_build_id

\* C38: Channel rows are written by CreateBuild alone and never deleted, and every
\* Channel row has a current build that exists; hence every channel that ListChannels or
\* GetChannel reports has a head build, and every build's parent id is smaller than the
\* build's own id.
C38_ChannelAlwaysHasHead ==
    /\ [](\A c \in 1..Len(channels) : channels[c].current_build_id \in 1..Len(builds))
    /\ [](\A b \in 1..Len(builds) : builds[b].parent_build_id < b)
    /\ []((last.req.op = "ListChannels" /\ last.resp.status = 200) =>
            \A n \in DOMAIN last.resp.channels :
                /\ "head" \in DOMAIN last.resp.channels[n]
                /\ last.resp.channels[n].head.id \in 1..Len(builds))
    /\ []((last.req.op = "GetChannel" /\ last.resp.status = 200) =>
            /\ "head" \in DOMAIN last.resp.channel
            /\ last.resp.channel.head.id \in 1..Len(builds))
    /\ [][/\ Len(channels') >= Len(channels)
          /\ \A c \in 1..Len(channels) :
                /\ channels'[c].name = channels[c].name
                /\ channels'[c].upload_id = channels[c].upload_id
          /\ channels' # channels =>
                \E p \in Procs : req[p].op = "CreateBuild" /\ pc[p] = "cb_upsert"]_vars

\* A channel listing reports the channel's head, the second build of the channel, whose
\* parent is the first.
C38_Witness ==
    /\ last.req.op = "ListChannels"
    /\ last.resp.status = 200
    /\ \E n \in DOMAIN last.resp.channels :
          /\ "head" \in DOMAIN last.resp.channels[n]
          /\ last.resp.channels[n].head.id = 2
          /\ builds[2].parent_build_id = 1

\* C10: a build-file registration sent with a standard user's credential succeeds
\* only on a build of a game in that user's own namespace.
C10_UserIsolation ==
    ( /\ last.req.op = "CreateBuildFile"
      /\ last.resp.status = 200
      /\ ~IsAdmin(last.req.user) )
    => BuildOwner(last.req.build) = last.req.user

=============================================================================
